---------------------------- MODULE Spec2Model ----------------------------
(***************************************************************************)
(* Model of the MMGroup chatbot worker: the conversation memory            *)
(* (utils/conversationMemory.ts), the lead extractor                       *)
(* (utils/leadDetection.ts), the Supabase leads provider and the /chat     *)
(* handler with its lead-capture state machine (routes/chat.ts).           *)
(*                                                                         *)
(* Strings are sequences of one-character strings, so that the regular     *)
(* expressions of the source are matched for real.                         *)
(***************************************************************************)
EXTENDS Integers, Sequences, FiniteSets, TLC

(***************************************************************************)
(* Characters                                                              *)
(***************************************************************************)
LowerSeq ==
  <<"a","b","c","d","e","f","g","h","i","j","k","l","m",
    "n","o","p","q","r","s","t","u","v","w","x","y","z">>

UpperSeq ==
  <<"A","B","C","D","E","F","G","H","I","J","K","L","M",
    "N","O","P","Q","R","S","T","U","V","W","X","Y","Z">>

Lower == {LowerSeq[k] : k \in 1..26}

Upper == {UpperSeq[k] : k \in 1..26}

Digit == {"0","1","2","3","4","5","6","7","8","9"}

\* \s of a JavaScript regular expression (the characters used here)
Space == {" ", "\t", "\n"}

\* String.prototype.toLowerCase on one character
ToLowerChar(c) ==
  IF c \in Upper THEN LowerSeq[CHOOSE k \in 1..26 : UpperSeq[k] = c] ELSE c

\* String.prototype.toUpperCase on one character
ToUpperChar(c) ==
  IF c \in Lower THEN UpperSeq[CHOOSE k \in 1..26 : LowerSeq[k] = c] ELSE c

\* String.prototype.toLowerCase
ToLowerCase(s) == [k \in 1..Len(s) |-> ToLowerChar(s[k])]

\* s.slice(a, b) with 1-based inclusive bounds; empty when a > b
Slice(s, a, b) == IF a > b THEN <<>> ELSE SubSeq(s, a, b)

\* Body(value), the value computed once
With(value, Body(_)) == CHOOSE y \in {Body(x) : x \in {value}} : TRUE

Min(S) == CHOOSE x \in S : \A y \in S : x <= y

Max(S) == CHOOSE x \in S : \A y \in S : x >= y

(***************************************************************************)
(* Regular expressions: a backtracking matcher with the priority order of  *)
(* the JavaScript engine (greedy quantifiers, leftmost alternative first). *)
(* Ends(re, s, i, ic) is the sequence, in priority order, of the ways re   *)
(* can match s from position i: e is the position after the match and g    *)
(* the span <<first, last>> of capture group 1 (<<0, 0>> when not set).    *)
(***************************************************************************)
NoGroup == <<0, 0>>

\* [chars]
Cls(S) == [t |-> "cls", cs |-> S]

\* [^chars]
NCls(S) == [t |-> "ncls", cs |-> S]

\* a literal string
Lit(w) == [t |-> "lit", w |-> w]

\* r1 r2 ... rn
Cat(rs) == [t |-> "cat", rs |-> rs]

\* r1 | r2 | ... | rn
Alt(rs) == [t |-> "alt", rs |-> rs]

\* r{lo,hi}, greedy; hi = -1 stands for no upper limit
Rep(r, lo, hi) == [t |-> "rep", r |-> r, lo |-> lo, hi |-> hi]

\* ( r ), capture group 1
Grp(r) == [t |-> "grp", r |-> r]

\* ^ and $
Bol == [t |-> "bol"]

\* \b
Wb == [t |-> "wb"]

\* \w
WordChars == Lower \cup Upper \cup Digit \cup {"_"}

\* is position i of s at a word boundary
AtWordBoundary(s, i) ==
  (i > 1 /\ s[i - 1] \in WordChars) # (i <= Len(s) /\ s[i] \in WordChars)

Eol == [t |-> "eol"]

Opt(r) == Rep(r, 0, 1)

Plus(r) == Rep(r, 1, -1)

Star(r) == Rep(r, 0, -1)

\* membership in a character class, under the i flag when ic
InCls(c, S, ic) ==
  \/ c \in S
  \/ ic /\ (ToLowerChar(c) \in S \/ ToUpperChar(c) \in S)

\* does the literal w occur in s at position i
LitAt(w, s, i, ic) ==
  /\ i + Len(w) - 1 <= Len(s)
  /\ \A k \in 1..Len(w) : InCls(s[i + k - 1], {w[k]}, ic)

\* the capture of a concatenation: the later part's when it has one
JoinGroup(g1, g2) == IF g2 = NoGroup THEN g1 ELSE g2

\* how many characters in a row from position i are in the class r
ClassRun(r, s, i, ic) ==
  LET in(k) == InCls(s[k], r.cs, ic) = (r.t = "cls")
      stopAt == CHOOSE k \in i..(Len(s) + 1) :
                  /\ k = Len(s) + 1 \/ ~in(k)
                  /\ \A j \in i..(k - 1) : in(j)
  IN stopAt - i

RECURSIVE Ends(_, _, _, _)
RECURSIVE CatEnds(_, _, _, _, _)
RECURSIVE RepEnds(_, _, _, _, _, _)

\* the ways rs[k..] can match from i
CatEnds(rs, k, s, i, ic) ==
  IF k > Len(rs) THEN << [e |-> i, g |-> NoGroup] >>
  ELSE LET first == Ends(rs[k], s, i, ic)
           \* the ways of one block of sixteen of the first[n], up to first[n]
           block[n \in 1..Len(first)] ==
             LET tail == CatEnds(rs, k + 1, s, first[n].e, ic)
             IN (IF n % 16 = 1 THEN <<>> ELSE block[n - 1]) \o
                [m \in 1..Len(tail) |->
                   [e |-> tail[m].e, g |-> JoinGroup(first[n].g, tail[m].g)]]
           \* the ways of the first j blocks
           rest[j \in 0..((Len(first) + 15) \div 16)] ==
             IF j = 0 THEN <<>>
             ELSE rest[j - 1] \o
                  block[IF 16 * j < Len(first) THEN 16 * j ELSE Len(first)]
       IN rest[(Len(first) + 15) \div 16]

\* the ways r{lo,hi} can match from i: one more iteration first (greedy)
RepEnds(r, lo, hi, s, i, ic) ==
  LET stop == IF lo <= 0 THEN << [e |-> i, g |-> NoGroup] >> ELSE <<>>
  IN IF hi = 0 THEN stop
     ELSE IF r.t \in {"cls", "ncls"}
       \* a run of single characters: the longest run first, one shorter each time
       THEN With(ClassRun(r, s, i, ic),
                 LAMBDA run :
                   LET top == IF hi > 0 /\ hi < run THEN hi ELSE run
                       least == IF lo > 0 THEN lo ELSE 0
                   IN [m \in 1..(top - least + 1) |->
                         [e |-> i + top - m + 1, g |-> NoGroup]])
     ELSE LET first == Ends(r, s, i, ic)
              more[n \in 0..Len(first)] ==
                IF n = 0 THEN <<>>
                ELSE IF first[n].e = i THEN more[n - 1]
                ELSE LET tail == RepEnds(r, IF lo > 0 THEN lo - 1 ELSE 0,
                                         IF hi > 0 THEN hi - 1 ELSE hi,
                                         s, first[n].e, ic)
                     IN more[n - 1] \o
                        [m \in 1..Len(tail) |->
                           [e |-> tail[m].e, g |-> JoinGroup(first[n].g, tail[m].g)]]
          IN more[Len(first)] \o stop

Ends(re, s, i, ic) ==
  CASE re.t = "cls" ->
         IF i <= Len(s) /\ InCls(s[i], re.cs, ic)
           THEN << [e |-> i + 1, g |-> NoGroup] >> ELSE <<>>
    [] re.t = "ncls" ->
         IF i <= Len(s) /\ ~InCls(s[i], re.cs, ic)
           THEN << [e |-> i + 1, g |-> NoGroup] >> ELSE <<>>
    [] re.t = "lit" ->
         IF LitAt(re.w, s, i, ic)
           THEN << [e |-> i + Len(re.w), g |-> NoGroup] >> ELSE <<>>
    [] re.t = "cat" -> CatEnds(re.rs, 1, s, i, ic)
    [] re.t = "alt" ->
         LET all[n \in 0..Len(re.rs)] ==
               IF n = 0 THEN <<>> ELSE all[n - 1] \o Ends(re.rs[n], s, i, ic)
         IN all[Len(re.rs)]
    [] re.t = "rep" -> RepEnds(re.r, re.lo, re.hi, s, i, ic)
    [] re.t = "grp" ->
         LET inner == Ends(re.r, s, i, ic)
         IN [m \in 1..Len(inner) |-> [e |-> inner[m].e, g |-> <<i, inner[m].e - 1>>]]
    [] re.t = "bol" -> IF i = 1 THEN << [e |-> i, g |-> NoGroup] >> ELSE <<>>
    [] re.t = "wb" -> IF AtWordBoundary(s, i) THEN << [e |-> i, g |-> NoGroup] >> ELSE <<>>
    [] re.t = "eol" -> IF i = Len(s) + 1 THEN << [e |-> i, g |-> NoGroup] >> ELSE <<>>

\* result of a failed match (null)
NoMatch == [found |-> FALSE, from |-> 0, to |-> 0, g |-> NoGroup]

\* s.match(re) for the first match: leftmost start, first way in priority order
MatchFirst(re, s, ic) ==
  LET starts == {i \in 1..(Len(s) + 1) : Len(Ends(re, s, i, ic)) > 0}
  IN IF starts = {} THEN NoMatch
     ELSE LET i == Min(starts)
              m == Ends(re, s, i, ic)[1]
          IN [found |-> TRUE, from |-> i, to |-> m.e - 1, g |-> m.g]

\* re.test(s) from lastIndex 0
Test(re, s, ic) == MatchFirst(re, s, ic).found

(***************************************************************************)
(* Lead extractor (utils/leadDetection.ts)                                 *)
(***************************************************************************)
\* an absent (undefined / null) string; every present one is non-empty
Absent == <<>>

NOT_NAMES ==
  { <<"h","i">>,
    <<"h","e","l","l","o">>,
    <<"h","e","y">>,
    <<"y","e","s">>,
    <<"n","o">>,
    <<"o","k">>,
    <<"o","k","a","y">>,
    <<"t","h","a","n","k","s">>,
    <<"t","h","a","n","k">>,
    <<"p","l","e","a","s","e">>,
    <<"h","e","l","p">>,
    <<"c","o","n","t","a","c","t">>,
    <<"s","a","l","e","s">>,
    <<"s","u","p","p","o","r","t">>,
    <<"i","n","f","o">>,
    <<"q","u","e","s","t","i","o","n">>,
    <<"i","n","q","u","i","r","y">>,
    <<"i","n","t","e","r","e","s","t","e","d">>,
    <<"d","e","m","o">>,
    <<"p","r","i","c","i","n","g">>,
    <<"q","u","o","t","e">>,
    <<"m","e","e","t","i","n","g">>,
    <<"c","a","l","l">>,
    <<"e","m","a","i","l">>,
    <<"s","u","b","s","c","r","i","b","e">>,
    <<"r","e","g","i","s","t","e","r">>,
    <<"b","o","o","k">>,
    <<"s","c","h","e","d","u","l","e">>,
    <<"s","e","r","v","i","c","e">>,
    <<"s","e","r","v","i","c","e","s">>,
    <<"t","h","e">>,
    <<"a">>,
    <<"a","n">>,
    <<"i","s">>,
    <<"a","r","e">>,
    <<"w","a","s">>,
    <<"w","e","r","e">>,
    <<"b","e">>,
    <<"b","e","e","n">>,
    <<"b","e","i","n","g">>,
    <<"h","a","v","e">>,
    <<"h","a","s">>,
    <<"h","a","d">>,
    <<"d","o">>,
    <<"d","o","e","s">>,
    <<"d","i","d">>,
    <<"w","i","l","l">>,
    <<"w","o","u","l","d">>,
    <<"c","o","u","l","d">>,
    <<"s","h","o","u","l","d">>,
    <<"c","a","n">>,
    <<"m","a","y">>,
    <<"m","i","g","h","t">>,
    <<"m","u","s","t">>,
    <<"s","h","a","l","l">>,
    <<"n","e","e","d">>,
    <<"w","a","n","t">>,
    <<"l","i","k","e">>,
    <<"m","o","r","e">>,
    <<"a","b","o","u","t">>,
    <<"w","i","t","h">>,
    <<"f","r","o","m">>,
    <<"y","o","u","r">>,
    <<"y","o","u">>,
    <<"m","e">>,
    <<"m","y">>,
    <<"i">>,
    <<"w","e">>,
    <<"u","s">>,
    <<"o","u","r">>,
    <<"w","h","a","t">>,
    <<"w","h","e","n">>,
    <<"w","h","e","r","e">>,
    <<"w","h","y">>,
    <<"h","o","w">>,
    <<"w","h","i","c","h">>,
    <<"w","h","o">>,
    <<"w","h","o","m">>,
    <<"w","h","o","s","e">> }

DISPOSABLE_DOMAINS ==
  { <<"m","a","i","l","i","n","a","t","o","r",".","c","o","m">>,
    <<"g","u","e","r","r","i","l","l","a","m","a","i","l",".","c","o","m">>,
    <<"t","e","m","p","m","a","i","l",".","c","o","m">>,
    <<"1","0","m","i","n","u","t","e","m","a","i","l",".","c","o","m">>,
    <<"t","h","r","o","w","a","w","a","y",".","e","m","a","i","l">>,
    <<"f","a","k","e","i","n","b","o","x",".","c","o","m">>,
    <<"t","r","a","s","h","m","a","i","l",".","c","o","m">>,
    <<"g","e","t","n","a","d","a",".","c","o","m">>,
    <<"t","e","m","p","-","m","a","i","l",".","o","r","g">>,
    <<"t","e","m","p","a","i","l",".","c","o","m">>,
    <<"m","o","h","m","a","l",".","c","o","m">>,
    <<"d","i","s","p","o","s","t","a","b","l","e",".","c","o","m">>,
    <<"m","a","i","l","d","r","o","p",".","c","c">>,
    <<"y","o","p","m","a","i","l",".","c","o","m">>,
    <<"s","h","a","r","k","l","a","s","e","r","s",".","c","o","m">>,
    <<"g","u","e","r","r","i","l","l","a","m","a","i","l","b","l","o","c","k",".","c","o","m">>,
    <<"p","o","k","e","m","a","i","l",".","n","e","t">>,
    <<"s","p","a","m","4",".","m","e">>,
    <<"g","r","r",".","l","a">>,
    <<"g","e","t","a","i","r","m","a","i","l",".","c","o","m">> }

\* /[a-zA-Z0-9._%+-]+@[a-zA-Z0-9.-]+\.[a-zA-Z]{2,}/gi
EMAIL_REGEX ==
  Cat(<< Plus(Cls(Lower \cup Upper \cup Digit \cup {".", "_", "%", "+", "-"})),
         Lit(<<"@">>),
         Plus(Cls(Lower \cup Upper \cup Digit \cup {".", "-"})),
         Lit(<<".">>),
         Rep(Cls(Lower \cup Upper), 2, -1) >>)

\* [-.\s]?
PhoneSep == Opt(Cls({"-", "."} \cup Space))

\* /(?:\+?\d{1,3}[-.\s]?)?\(?\d{1,4}\)?[-.\s]?\d{1,4}[-.\s]?\d{1,9}/g
PHONE_REGEX ==
  Cat(<< Opt(Cat(<< Opt(Lit(<<"+">>)), Rep(Cls(Digit), 1, 3), PhoneSep >>)),
         Opt(Lit(<<"(">>)), Rep(Cls(Digit), 1, 4), Opt(Lit(<<")">>)), PhoneSep,
         Rep(Cls(Digit), 1, 4), PhoneSep,
         Rep(Cls(Digit), 1, 9) >>)

\* [A-Z][a-z]+
NameWord == Cat(<< Cls(Upper), Plus(Cls(Lower)) >>)

\* ([A-Z][a-z]+(?:\s+[A-Z][a-z]+)?)
OneOrTwoWords == Grp(Cat(<< NameWord, Opt(Cat(<< Plus(Cls(Space)), NameWord >>)) >>))

\* the six patterns, most specific first; all carry the i flag
NAME_PATTERNS ==
  << \* /(?:my name is|name is)\s+([A-Z][a-z]+(?:\s+[A-Z][a-z]+)?)/i
     Cat(<< Alt(<< Lit(<<"m","y"," ","n","a","m","e"," ","i","s">>),
                   Lit(<<"n","a","m","e"," ","i","s">>) >>),
            Plus(Cls(Space)), OneOrTwoWords >>),
     \* /(?:i'm|i am)\s+([A-Z][a-z]+\s+[A-Z][a-z]+)/i
     Cat(<< Alt(<< Lit(<<"i","'","m">>), Lit(<<"i"," ","a","m">>) >>),
            Plus(Cls(Space)),
            Grp(Cat(<< NameWord, Plus(Cls(Space)), NameWord >>)) >>),
     \* /this is\s+([A-Z][a-z]+(?:\s+[A-Z][a-z]+)?)/i
     Cat(<< Lit(<<"t","h","i","s"," ","i","s">>), Plus(Cls(Space)), OneOrTwoWords >>),
     \* /([A-Z][a-z]+(?:\s+[A-Z][a-z]+)?)\s+(?:here|speaking)/i
     Cat(<< OneOrTwoWords, Plus(Cls(Space)),
            Alt(<< Lit(<<"h","e","r","e">>),
                   Lit(<<"s","p","e","a","k","i","n","g">>) >>) >>),
     \* /^([A-Z][a-z]+(?:\s+[A-Z][a-z]+)?)\s*[,.]?\s*(?:my email|email|here)/i
     Cat(<< Bol, OneOrTwoWords, Star(Cls(Space)), Opt(Cls({",", "."})), Star(Cls(Space)),
            Alt(<< Lit(<<"m","y"," ","e","m","a","i","l">>),
                   Lit(<<"e","m","a","i","l">>),
                   Lit(<<"h","e","r","e">>) >>) >>),
     \* /call me\s+([A-Z][a-z]+(?:\s+[A-Z][a-z]+)?)/i
     Cat(<< Lit(<<"c","a","l","l"," ","m","e">>), Plus(Cls(Space)), OneOrTwoWords >>) >>

\* String.prototype.trim
Trim(s) ==
  LET keep == SelectSeq([k \in 1..Len(s) |-> k], LAMBDA k : s[k] \notin Space)
  IN IF Len(keep) = 0 THEN <<>> ELSE SubSeq(s, keep[1], keep[Len(keep)])

\* s.split(/\s+/): the pieces between the maximal runs of whitespace
SplitWs(s) ==
  LET n == Len(s)
      \* positions where a piece starts: 1, and after each whitespace run
      starts == {1} \cup {k \in 2..(n + 1) : s[k - 1] \in Space /\ (k > n \/ s[k] \notin Space)}
      EndOf(a) == IF \E k \in a..n : s[k] \in Space
                    THEN Min({k \in a..n : s[k] \in Space}) - 1 ELSE n
      ordered[k \in 0..Cardinality(starts)] ==
        IF k = 0 THEN <<>>
        ELSE LET a == CHOOSE x \in starts : Cardinality({y \in starts : y < x}) = k - 1
             IN Append(ordered[k - 1], Slice(s, a, EndOf(a)))
  IN ordered[Cardinality(starts)]

\* does s contain the character c
Includes(s, c) == \E k \in 1..Len(s) : s[k] = c

\* s.replace(/[^...]/g, ''): the characters of s that are in keep, in order
KeepChars(s, keep) ==
  LET f[k \in 0..Len(s)] ==
        IF k = 0 THEN <<>>
        ELSE IF s[k] \in keep THEN Append(f[k - 1], s[k]) ELSE f[k - 1]
  IN f[Len(s)]

\* extractEmail: the first match, lower-cased
extractEmail(text) ==
  LET m == MatchFirst(EMAIL_REGEX, text, TRUE)
  IN IF m.found THEN ToLowerCase(Slice(text, m.from, m.to)) ELSE Absent

\* extractPhone: the first match stripped to digits and '+'; at least 7 digits
extractPhone(text) ==
  LET m == MatchFirst(PHONE_REGEX, text, FALSE)
      cleaned == KeepChars(Slice(text, m.from, m.to), Digit \cup {"+"})
  IN IF ~m.found THEN Absent
     ELSE IF Len(KeepChars(cleaned, Digit)) < 7 THEN Absent
     ELSE cleaned

\* word.charAt(0).toUpperCase() + word.slice(1).toLowerCase()
Capitalize(word) ==
  IF word = <<>> THEN <<>>
  ELSE <<ToUpperChar(word[1])>> \o ToLowerCase(Slice(word, 2, Len(word)))

\* words.join(' ')
JoinSpace(words) ==
  LET f[k \in 0..Len(words)] ==
        IF k = 0 THEN <<>>
        ELSE IF k = 1 THEN words[1]
        ELSE f[k - 1] \o <<" ">> \o words[k]
  IN f[Len(words)]

\* /[@#$%^&*()+=\[\]{}|\\<>\/]/
SpecialChars ==
  {"@", "#", "$", "%", "^", "&", "*", "(", ")", "+", "=", "[", "]",
   "{", "}", "|", "\\", "<", ">", "/"}

\* the candidate of one explicit pattern: match[1].trim(), Absent when the
\* pattern does not match or a word of the candidate is a common word
PatternName(pattern, text) ==
  LET m == MatchFirst(pattern, text, TRUE)
      extractedName == Trim(Slice(text, m.g[1], m.g[2]))
      nameWords == SplitWs(ToLowerCase(extractedName))
      isCommonWord == \E k \in 1..Len(nameWords) : nameWords[k] \in NOT_NAMES
  IN IF m.found /\ m.g # NoGroup /\ m.g[1] <= m.g[2] /\ ~isCommonWord
       THEN extractedName ELSE Absent

\* the fallback: a message of 1-3 words taken as a standalone name
StandaloneName(text) ==
  LET trimmed == Trim(text)
      words == SplitWs(trimmed)
      hasCommonWord == \E k \in 1..Len(words) : ToLowerCase(words[k]) \in NOT_NAMES
      hasEmail == Test(EMAIL_REGEX, trimmed, TRUE)
      isQuestion == Includes(trimmed, "?")
      hasSpecialChars == \E k \in 1..Len(trimmed) : trimmed[k] \in SpecialChars
  IN IF /\ Len(words) >= 1 /\ Len(words) <= 3
        /\ ~hasCommonWord /\ ~hasEmail /\ ~isQuestion /\ ~hasSpecialChars
        /\ \A k \in 1..Len(words) : Len(words[k]) >= 2
       THEN JoinSpace([k \in 1..Len(words) |-> Capitalize(words[k])])
       ELSE Absent

\* extractName: the first explicit pattern that yields a name, else the fallback
extractName(text) ==
  LET hits == {k \in 1..Len(NAME_PATTERNS) : PatternName(NAME_PATTERNS[k], text) # Absent}
  IN IF hits # {} THEN PatternName(NAME_PATTERNS[Min(hits)], text)
     ELSE StandaloneName(text)

\* /^[^\s@]+@[^\s@]+\.[^\s@]+$/
EmailFormatRegex ==
  Cat(<< Bol, Plus(NCls(Space \cup {"@"})), Lit(<<"@">>),
         Plus(NCls(Space \cup {"@"})), Lit(<<".">>),
         Plus(NCls(Space \cup {"@"})), Eol >>)

\* longest address isValidEmailFormat accepts
MaxEmailLength == 254

isValidEmailFormat(email) ==
  Test(EmailFormatRegex, email, FALSE) /\ Len(email) <= MaxEmailLength

\* email.split('@')[1]: the piece between the first and the second '@'
DomainOf(email) ==
  LET ats == {k \in 1..Len(email) : email[k] = "@"}
  IN IF ats = {} THEN Absent
     ELSE LET a == Min(ats)
              later == {k \in ats : k > a}
              b == IF later = {} THEN Len(email) + 1 ELSE Min(later)
          IN Slice(email, a + 1, b - 1)

\* the blocklist test without the lower-casing of the domain
isDisposableEmailCaseSensitive(email) ==
  LET domain == DomainOf(email)
  IN domain # Absent /\ domain \in DISPOSABLE_DOMAINS

isDisposableEmail(email) ==
  LET domain == ToLowerCase(DomainOf(email))
  IN domain # Absent /\ domain \in DISPOSABLE_DOMAINS

\* validateEmail: format first, then the disposable-domain blocklist
validateEmail(email) ==
  IF ~isValidEmailFormat(email) THEN [valid |-> FALSE, reason |-> "Invalid email format"]
  ELSE IF isDisposableEmail(email)
    THEN [valid |-> FALSE, reason |-> "Please use a non-disposable email address"]
  ELSE [valid |-> TRUE, reason |-> "none"]

\* extractLeadInfo (hasLeadIntent is not read by the /chat handler)
extractLeadInfo(message) ==
  [name |-> extractName(message),
   email |-> extractEmail(message),
   phone |-> extractPhone(message)]

\* hasContactInfo
hasContactInfo(message) ==
  extractEmail(message) # Absent \/ extractPhone(message) # Absent

(***************************************************************************)
(* Knowledge gaps (routes/knowledgeGaps.ts): the pure part                 *)
(***************************************************************************)
\* /^(hi|hello|hey|hiya|howdy|good\s+(morning|afternoon|evening)|thanks|
\*    thank\s+you|ok|okay|yes|no|bye|goodbye)\b/i
GREETING_PATTERN ==
  Cat(<< Bol,
         Alt(<< Lit(<<"h","i">>), Lit(<<"h","e","l","l","o">>), Lit(<<"h","e","y">>),
                Lit(<<"h","i","y","a">>), Lit(<<"h","o","w","d","y">>),
                Cat(<< Lit(<<"g","o","o","d">>), Plus(Cls(Space)),
                       Alt(<< Lit(<<"m","o","r","n","i","n","g">>),
                              Lit(<<"a","f","t","e","r","n","o","o","n">>),
                              Lit(<<"e","v","e","n","i","n","g">>) >>) >>),
                Lit(<<"t","h","a","n","k","s">>),
                Cat(<< Lit(<<"t","h","a","n","k">>), Plus(Cls(Space)),
                       Lit(<<"y","o","u">>) >>),
                Lit(<<"o","k">>), Lit(<<"o","k","a","y">>), Lit(<<"y","e","s">>),
                Lit(<<"n","o">>), Lit(<<"b","y","e">>),
                Lit(<<"g","o","o","d","b","y","e">>) >>),
         Wb >>)

\* const MIN_MESSAGE_LENGTH = 15
MIN_MESSAGE_LENGTH == 15

\* isNoise: a short message, a greeting, or a message with contact info
isNoise(message) ==
  \/ Len(message) < MIN_MESSAGE_LENGTH
  \/ Test(GREETING_PATTERN, Trim(message), TRUE)
  \/ hasContactInfo(message)

\* normalizeQuestion: lower case, trimmed, the characters other than \w and
\* \s removed, every run of whitespace made one space
normalizeQuestion(question) ==
  LET kept == SelectSeq(Trim(ToLowerCase(question)),
                        LAMBDA c : c \in WordChars \cup Space)
  IN JoinSpace(SplitWs(kept))

(***************************************************************************)
(* State                                                                   *)
(***************************************************************************)
VARIABLES
  kv,      \* VECTORS_KV: key -> [value, expiration (seconds)]
  now,     \* the clock, in seconds
  leads,   \* the lead table behind the capture-lead function, in insert order
  config,  \* the worker's configuration: [leadsEnabled]
  memo,    \* the lead extractor's results for the message bodies, computed at start
  last,    \* the most recent request: the collaborators' answers, its trace and its response
  hist,    \* history of the session, read by the properties only
  d1,      \* ANALYTICS_DB: the rows of chat_logs and of knowledge_gaps, in insert order
  background,  \* the background work the chat turns handed to ctx.waitUntil
  vkv,     \* VECTORS_KV, the keys of the vector store: key -> JSON text
  res      \* the most recent operation on the vector store or the chunker and its result

vars == <<kv, now, leads, config, memo, last, hist, d1, background, vkv, res>>

(***************************************************************************)
(* The messages the model sends, and the extractor tabulated over them     *)
(***************************************************************************)
\* "Hello"
Hello ==
  <<"H", "e", "l", "l", "o">>

\* "I'm Jordan Lee"
ImJordanLee ==
  <<"I", "'", "m", " ", "J", "o", "r", "d", "a", "n", " ", "L", "e", "e">>

\* "What services do you offer?"
WhatServices ==
  <<"W", "h", "a", "t", " ", "s", "e", "r", "v", "i", "c", "e", "s", " ", "d", "o", " ", "y", "o", "u", " ", "o", "f", "f", "e", "r", "?">>

\* "jordan@example.com"
JordanEmail ==
  <<"j", "o", "r", "d", "a", "n", "@", "e", "x", "a", "m", "p", "l", "e", ".", "c", "o", "m">>

\* "cc bob@mailinator.com"
CcBob ==
  <<"c", "c", " ", "b", "o", "b", "@", "m", "a", "i", "l", "i", "n", "a", "t", "o", "r", ".", "c", "o", "m">>

\* "Sam Roy here, sam@corp.io, +971 50 123 4567"
SamRoy ==
  <<"S", "a", "m", " ", "R", "o", "y", " ", "h", "e", "r", "e", ",", " ", "s", "a", "m", "@", "c", "o", "r", "p", ".", "i", "o", ",", " ", "+", "9", "7", "1", " ", "5", "0", " ", "1", "2", "3", " ", "4", "5", "6", "7">>

\* "  "
Blank ==
  <<" ", " ">>

\* the messages of the chat turns
Messages == <<Hello, ImJordanLee, WhatServices, JordanEmail, CcBob, SamRoy, Blank>>

\* longest message handleChat accepts, in characters after trimming
MaxMessageLength == 2000

\* " " + "?".repeat(2000) + " ": exactly 2000 characters once trimmed
AtLimit == <<" ">> \o [k \in 1..MaxMessageLength |-> "?"] \o <<" ">>

\* " " + "?".repeat(2001) + " ": one character more
OverLimit == <<" ">> \o [k \in 1..(MaxMessageLength + 1) |-> "?"] \o <<" ">>

\* "What are your prices?"
WhatPrices ==
  <<"W", "h", "a", "t", " ", "a", "r", "e", " ", "y", "o", "u", "r", " ",
     "p", "r", "i", "c", "e", "s", "?">>

\* "what are YOUR  prices"
WhatPricesShouted ==
  <<"w", "h", "a", "t", " ", "a", "r", "e", " ", "Y", "O", "U", "R", " ",
     " ", "p", "r", "i", "c", "e", "s">>

\* "Do you offer webinars?"
DoYouOffer ==
  <<"D", "o", " ", "y", "o", "u", " ", "o", "f", "f", "e", "r", " ", "w",
     "e", "b", "i", "n", "a", "r", "s", "?">>

\* "Hello, what do you offer?"
HelloWhat ==
  <<"H", "e", "l", "l", "o", ",", " ", "w", "h", "a", "t", " ", "d", "o",
     " ", "y", "o", "u", " ", "o", "f", "f", "e", "r", "?">>

\* "pricing info??"
FourteenChars ==
  <<"p", "r", "i", "c", "i", "n", "g", " ", "i", "n", "f", "o", "?", "?">>

\* "pricing info???"
FifteenChars ==
  <<"p", "r", "i", "c", "i", "n", "g", " ", "i", "n", "f", "o", "?", "?",
     "?">>

\* "Please call 050 123 4567"
PleaseCall ==
  <<"P", "l", "e", "a", "s", "e", " ", "c", "a", "l", "l", " ", "0", "5",
     "0", " ", "1", "2", "3", " ", "4", "5", "6", "7">>

\* "Okay2 then what is it"
Okay2 ==
  <<"O", "k", "a", "y", "2", " ", "t", "h", "e", "n", " ", "w", "h", "a",
     "t", " ", "i", "s", " ", "i", "t">>

\* "good  evening everyone"
GoodEvening ==
  <<"g", "o", "o", "d", " ", " ", "e", "v", "e", "n", "i", "n", "g", " ",
     "e", "v", "e", "r", "y", "o", "n", "e">>

\* "Thank you very much!!"
ThankYou ==
  <<"T", "h", "a", "n", "k", " ", "y", "o", "u", " ", "v", "e", "r", "y",
     " ", "m", "u", "c", "h", "!", "!">>

\* "Nothing works for me"
NothingWorks ==
  <<"N", "o", "t", "h", "i", "n", "g", " ", "w", "o", "r", "k", "s", " ",
     "f", "o", "r", " ", "m", "e">>

\* the messages classified as knowledge gaps or not
GapMessages ==
  << WhatPrices, WhatPricesShouted, DoYouOffer, HelloWhat,
     FourteenChars, FifteenChars, PleaseCall, Okay2,
     GoodEvening, ThankYou, NothingWorks >>

\* every message text the model sends
Bodies == Messages \o <<AtLimit, OverLimit>> \o GapMessages

\* message.trim() for each body, computed once
RECURSIVE TrimmedUpTo(_)
TrimmedUpTo(k) ==
  IF k = 0 THEN <<>> ELSE Append(TrimmedUpTo(k - 1), Trim(Bodies[k]))

TrimmedBodies == TrimmedUpTo(Len(Bodies))

\* message.trim(), looked up when the message is one of the bodies
TrimOf(body) ==
  LET ks == {k \in 1..Len(Bodies) : Bodies[k] = body}
  IN IF ks = {} THEN Trim(body) ELSE TrimmedBodies[Min(ks)]

\* extractLeadInfo(userMessage) for each body, computed once
RECURSIVE LeadInfoUpTo(_)
LeadInfoUpTo(k) ==
  IF k = 0 THEN <<>>
  ELSE Append(LeadInfoUpTo(k - 1), extractLeadInfo(TrimmedBodies[k]))

LeadInfoTable == LeadInfoUpTo(Len(Bodies))

\* validateEmail of the email of each body (of the empty string when it has none)
RECURSIVE ValidationUpTo(_)
ValidationUpTo(k) ==
  IF k = 0 THEN <<>>
  ELSE Append(ValidationUpTo(k - 1), validateEmail(LeadInfoTable[k].email))

ValidationTable == ValidationUpTo(Len(Bodies))

\* isNoise(userMessage) for each body, computed once
RECURSIVE NoiseUpTo(_)
NoiseUpTo(k) ==
  IF k = 0 THEN <<>> ELSE Append(NoiseUpTo(k - 1), isNoise(TrimmedBodies[k]))

NoiseTable == NoiseUpTo(Len(Bodies))

\* normalizeQuestion(userMessage) for each body, computed once
RECURSIVE NormalizedUpTo(_)
NormalizedUpTo(k) ==
  IF k = 0 THEN <<>> ELSE Append(NormalizedUpTo(k - 1), normalizeQuestion(TrimmedBodies[k]))

NormalizedTable == NormalizedUpTo(Len(Bodies))

\* The strings given to validateEmail: a local part, an '@' or none, a domain,
\* and the whole padded in front with the letter a up to a total length
EmailLocals == {<<"u", "s", "e", "r">>, <<>>, <<"a", " ", "b">>, <<"u", "@", "x">>}

EmailSeparators == {<<"@">>, <<>>}

EmailDomains ==
  { <<"m", "a", "i", "l", "i", "n", "a", "t", "o", "r", ".", "c", "o", "m">>,
    <<"M", "A", "I", "L", "I", "N", "A", "T", "O", "R", ".", "C", "O", "M">>,
    <<"M", "a", "i", "l", "i", "n", "a", "t", "o", "r", ".", "C", "o", "m">>,
    <<"x", ".", "m", "a", "i", "l", "i", "n", "a", "t", "o", "r", ".", "c", "o", "m">>,
    <<"m", "a", "i", "l", "i", "n", "a", "t", "o", "r", ".", "c", "o", "m", ".", "a", "e">>,
    <<"e", "x", "a", "m", "p", "l", "e", ".", "c", "o", "m">>,
    <<"e", "x", "a", "m", "p", "l", "e">>,
    <<".", "c", "o", "m">>,
    <<"e", "x", "a", "m", "p", "l", "e", ".">>,
    <<"e", "x", "a", " ", "m", "p", "l", "e", ".", "c", "o", "m">> }

EmailLengths == {0, MaxEmailLength, MaxEmailLength + 1}

PadTo(s, n) ==
  IF Len(s) >= n THEN s ELSE [k \in 1..(n - Len(s)) |-> "a"] \o s

EmailInputs ==
  [local : EmailLocals, at : EmailSeparators, domain : EmailDomains, total : EmailLengths]

EmailOf(input) == PadTo(input.local \o input.at \o input.domain, input.total)

\* validateEmail(email) for each of the strings, computed once
EmailTable ==
  {[input |-> input, result |-> validateEmail(EmailOf(input))] : input \in EmailInputs}

\* isNoise(text) of a message of the model, read from the table
NoiseOf(text) ==
  memo.noise[Min({k \in 1..Len(Bodies) : TrimmedBodies[k] = text})]

\* normalizeQuestion(text) of a message of the model, read from the table
NormalizedOf(text) ==
  memo.normalized[Min({k \in 1..Len(Bodies) : TrimmedBodies[k] = text})]

\* extractLeadInfo(text) of a message of the model, read from the table
LeadInfoOf(text) ==
  memo.leadInfo[Min({k \in 1..Len(Bodies) : TrimmedBodies[k] = text})]

\* validateEmail(email) of an email of a message of the model, read from the table
ValidationOf(email) ==
  memo.validation[Min({k \in 1..Len(Bodies) : memo.leadInfo[k].email = email})]

(***************************************************************************)
(* Conversation memory (utils/conversationMemory.ts)                       *)
(***************************************************************************)
\* const CONVERSATION_TTL = 60 * 60 * 24
CONVERSATION_TTL == 60 * 60 * 24

\* const MAX_MESSAGES = 10
MAX_MESSAGES == 10

\* null, as returned for a missing conversation
Null == [null |-> TRUE]

\* an optional boolean: undefined, or <<b>>
Undefined == <<>>

EmptyLeadInfo == [name |-> Absent, email |-> Absent, phone |-> Absent]

\* `conversation:${sessionId}`
ConversationKey(sessionId) == <<"conversation", sessionId>>

\* a get that returns the stored value whatever the clock says
KvGetIgnoringExpiry(store, t, key) ==
  IF key \in DOMAIN store THEN store[key].value ELSE [null |-> TRUE]

\* a put that keeps the expiration an existing entry already has
KvPutKeepingExpiry(store, t, key, value, ttl) ==
  [k \in DOMAIN store \cup {key} |->
     IF k = key
       THEN [value |-> value,
             expiration |-> IF key \in DOMAIN store /\ t < store[key].expiration
                              THEN store[key].expiration ELSE t + ttl]
       ELSE store[k]]

\* kv.get(key, 'json'): null for a key that is missing or has expired
KvGet(store, t, key) ==
  IF key \in DOMAIN store /\ t < store[key].expiration THEN store[key].value ELSE Null

\* kv.put(key, value, { expirationTtl: ttl })
KvPut(store, t, key, value, ttl) ==
  [k \in DOMAIN store \cup {key} |->
     IF k = key THEN [value |-> value, expiration |-> t + ttl] ELSE store[k]]

\* a read that answers from the store even when kv.get throws
getConversationIgnoringFailure(store, t, sessionId, getOk) ==
  KvGet(store, t, ConversationKey(sessionId))

\* getConversation: null when the key is missing and when kv.get throws
getConversation(store, t, sessionId, getOk) ==
  IF getOk THEN KvGet(store, t, ConversationKey(sessionId)) ELSE Null

\* messages.slice(-n)
LastN(messages, n) ==
  IF Len(messages) <= n THEN messages
  ELSE SubSeq(messages, Len(messages) - n + 1, Len(messages))

\* saveConversation: trims the window, stamps updatedAt and puts with the TTL;
\* an exception of kv.put is logged and swallowed
saveConversation(store, t, sessionId, data, putOk) ==
  LET trimmedData == [data EXCEPT !.messages = LastN(data.messages, MAX_MESSAGES),
                                  !.updatedAt = t * 1000]
  IN IF putOk
       THEN KvPut(store, t, ConversationKey(sessionId), trimmedData, CONVERSATION_TTL)
       ELSE store

\* a merge that keeps only the fields of the delta
MergeLeadInfoDeltaOnly(existingLeadInfo, leadInfo) == leadInfo

\* the merge of addMessage: a field of the delta replaces the stored one only
\* when it is truthy
MergeLeadInfo(existingLeadInfo, leadInfo) ==
  [name  |-> IF leadInfo.name # Absent THEN leadInfo.name ELSE existingLeadInfo.name,
   email |-> IF leadInfo.email # Absent THEN leadInfo.email ELSE existingLeadInfo.email,
   phone |-> IF leadInfo.phone # Absent THEN leadInfo.phone ELSE existingLeadInfo.phone]

\* typeof leadCaptureInProgress === 'boolean' ? leadCaptureInProgress : existing's
MergeFlag(existingFlag, leadCaptureInProgress) ==
  IF leadCaptureInProgress # Undefined THEN leadCaptureInProgress ELSE existingFlag

\* addMessage: read, merge, append, save.  leadInfo = EmptyLeadInfo and
\* leadCaptureInProgress = Undefined stand for the omitted arguments.
addMessage(store, t, sessionId, message, leadInfo, leadCaptureInProgress, getOk, putOk) ==
  LET existing == getConversation(store, t, sessionId, getOk)
      mergedLeadInfo ==
        MergeLeadInfo(IF existing = Null THEN EmptyLeadInfo ELSE existing.leadInfo, leadInfo)
      updatedData ==
        [messages |-> (IF existing = Null THEN <<>> ELSE existing.messages) \o <<message>>,
         leadInfo |-> mergedLeadInfo,
         leadCaptureInProgress |->
           MergeFlag(IF existing = Null THEN Undefined ELSE existing.leadCaptureInProgress,
                     leadCaptureInProgress),
         updatedAt |-> t * 1000]
  IN saveConversation(store, t, sessionId, updatedData, putOk)

\* formatPreviousMessages: the user and assistant messages of the window
formatPreviousMessages(conversation) ==
  IF conversation = Null THEN <<>>
  ELSE SelectSeq(conversation.messages, LAMBDA m : m.role \in {"user", "assistant"})

\* getAccumulatedLeadInfo: conversation?.leadInfo || {}
getAccumulatedLeadInfo(conversation) ==
  IF conversation = Null THEN EmptyLeadInfo ELSE conversation.leadInfo

(***************************************************************************)
(* Chunker (utils/chunker.ts)                                              *)
(***************************************************************************)
\* CONFIG.rag.chunkSize and CONFIG.rag.chunkOverlap
CHUNK_SIZE == 500

CHUNK_OVERLAP == 50

\* the look-ahead of the slice searched for a sentence end
LookAhead == 50

\* s.slice(a): the end bound dropped
JsSliceToEnd(s, a, b) ==
  IF a < 0 THEN s ELSE IF a < Len(s) THEN SubSeq(s, a + 1, Len(s)) ELSE <<>>

\* s.slice(a, b) of JavaScript: 0-based, b exclusive, a negative bound
\* counted from the end, both clamped to the string
JsSlice(s, a, b) ==
  LET Clamp(i) == IF i < 0 THEN (IF Len(s) + i < 0 THEN 0 ELSE Len(s) + i)
                  ELSE IF i > Len(s) THEN Len(s) ELSE i
  IN IF Clamp(a) < Clamp(b) THEN SubSeq(s, Clamp(a) + 1, Clamp(b)) ELSE <<>>

\* text.replace(/\s+/g, ' '): every run of whitespace made one space
NormalizeWhitespace(text) ==
  LET first == SelectSeq([k \in 1..Len(text) |-> k],
                         LAMBDA k : text[k] \notin Space \/ k = 1 \/ text[k - 1] \notin Space)
  IN [j \in 1..Len(first) |-> IF text[first[j]] \in Space THEN " " ELSE text[first[j]]]

\* text.lastIndexOf(w, position): the last 0-based index at or before
\* position where w occurs, -1 when there is none
LastIndexOf(text, w, position) ==
  LET upper == Min({position, Len(text) - Len(w)})
      hits == SelectSeq([k \in 1..(upper + 1) |-> k - 1],
                        LAMBDA k : \A j \in 1..Len(w) : text[k + j] = w[j])
  IN IF Len(hits) = 0 THEN -1 ELSE hits[Len(hits)]

\* const endings = ['. ', '! ', '? ', '.\n', '!\n', '?\n']
SentenceEndings ==
  << <<".", " ">>, <<"!", " ">>, <<"?", " ">>, <<".", "\n">>, <<"!", "\n">>, <<"?", "\n">> >>

\* findSentenceEnd: lastEnd after the endings 1..n
RECURSIVE LastEnd(_, _, _)
LastEnd(text, maxLength, n) ==
  IF n = 0 THEN -1
  ELSE LET lastEnd == LastEnd(text, maxLength, n - 1)
           pos == LastIndexOf(text, SentenceEndings[n], maxLength)
       IN IF pos > lastEnd THEN pos + 1 ELSE lastEnd

findSentenceEnd(text, maxLength) ==
  LET lastEnd == LastEnd(text, maxLength, Len(SentenceEndings))
  IN IF lastEnd > 0 THEN lastEnd ELSE maxLength

\* a window that starts one character after the end of the chunk
NextStartSkipping(end, overlap) == end + 1

\* start = end - overlap
NextStart(end, overlap) == end - overlap

\* the end of the window that starts at start: start + chunkSize, or, when
\* that is inside the text, the last sentence end of the window if it lies
\* beyond half the chunk size
ChunkEnd(cleaned, chunkSize, start) ==
  LET window == start + chunkSize
      sentenceEnd == findSentenceEnd(JsSlice(cleaned, start, window + LookAhead), chunkSize)
  IN IF window < Len(cleaned) /\ 2 * sentenceEnd > chunkSize
       THEN start + sentenceEnd ELSE window

\* The while loop of chunkText from the window start on.  A chunk carries,
\* beside its content and index, the span of the cleaned text it was cut
\* from (from, to: 1-based, inclusive), which the properties read.
RECURSIVE ChunkLoop(_, _, _, _, _, _)
ChunkLoop(cleaned, chunkSize, overlap, start, index, chunks) ==
  IF ~(start < Len(cleaned)) THEN chunks
  ELSE LET end == ChunkEnd(cleaned, chunkSize, start)
           slice == JsSlice(cleaned, start, end)
           chunk == Trim(slice)
           \* the 0-based position where the slice starts, and the untrimmed prefix
           sliceStart == IF start < 0 THEN (IF Len(cleaned) + start < 0 THEN 0
                                           ELSE Len(cleaned) + start)
                         ELSE start
           lead == Len(SelectSeq([k \in 1..Len(slice) |-> k],
                                 LAMBDA k : \A j \in 1..k : slice[j] \in Space))
           pushed == IF Len(chunk) > 0
                       THEN Append(chunks, [content |-> chunk, index |-> index,
                                            from |-> sliceStart + lead + 1,
                                            to |-> sliceStart + lead + Len(chunk)])
                       ELSE chunks
           nextIndex == IF Len(chunk) > 0 THEN index + 1 ELSE index
           nextStart == NextStart(end, overlap)
       IN IF nextStart >= Len(cleaned) - overlap THEN pushed
          ELSE ChunkLoop(cleaned, chunkSize, overlap, nextStart, nextIndex, pushed)

\* chunkText
chunkText(text, chunkSize, overlap) ==
  LET cleaned == Trim(NormalizeWhitespace(text))
  IN IF Len(cleaned) <= chunkSize
       THEN << [content |-> cleaned, index |-> 0, from |-> 1, to |-> Len(cleaned)] >>
       ELSE ChunkLoop(cleaned, chunkSize, overlap, 0, 0, <<>>)

\* generateChunkId: `${sourceId}_chunk_${chunkIndex}`
DecimalDigits == <<"0", "1", "2", "3", "4", "5", "6", "7", "8", "9">>

RECURSIVE ToDecimal(_)
ToDecimal(n) ==
  IF n < 10 THEN <<DecimalDigits[n + 1]>>
  ELSE Append(ToDecimal(n \div 10), DecimalDigits[(n % 10) + 1])

generateChunkId(sourceId, chunkIndex) ==
  sourceId \o <<"_", "c", "h", "u", "n", "k", "_">> \o ToDecimal(chunkIndex)

(***************************************************************************)
(* Vector store (providers/vectorstore/kv.ts)                              *)
(***************************************************************************)
\* const VECTORS_KEY = 'vectors_index'
VECTORS_KEY == <<"v", "e", "c", "t", "o", "r", "s", "_", "i", "n", "d", "e", "x">>

\* const VECTORS_PREFIX = 'vec_'
VECTORS_PREFIX == <<"v", "e", "c", "_">>

\* JSON.stringify(vector): the members in order; metadata is left out when
\* it is undefined
StringifyVector(vector) ==
  [object |-> << <<"id", vector.id>>, <<"content", vector.content>>,
                 <<"embedding", vector.embedding>> >>
              \o (IF vector.metadata = Undefined THEN <<>>
                  ELSE << <<"metadata", vector.metadata>> >>)]

\* the member of a parsed object, undefined when it has none of that name
Member(text, name) ==
  LET ks == {k \in 1..Len(text.object) : text.object[k][1] = name}
  IN IF ks = {} THEN Undefined ELSE text.object[Min(ks)][2]

\* JSON.parse(result) as StoredVector
ParseVector(text) ==
  [id |-> Member(text, "id"), content |-> Member(text, "content"),
   embedding |-> Member(text, "embedding"), metadata |-> Member(text, "metadata")]

\* JSON.stringify(index) and JSON.parse(index) as string[]
StringifyIndex(index) == [array |-> index]

ParseIndex(text) == text.array

\* kv.get(key): null for a key that is missing
VGet(store, key) == IF key \in DOMAIN store THEN store[key] ELSE Null

\* kv.put(key, value)
VPut(store, key, value) ==
  [k \in DOMAIN store \cup {key} |-> IF k = key THEN value ELSE store[k]]

\* kv.delete(key)
VDelete(store, key) == [k \in DOMAIN store \ {key} |-> store[k]]

\* getIndex: the list of ids, empty when the key is missing
getIndex(store) ==
  LET index == VGet(store, VECTORS_KEY)
  IN IF index = Null THEN <<>> ELSE ParseIndex(index)

\* index.includes(id)
IndexIncludes(index, id) == \E k \in 1..Len(index) : index[k] = id

\* an upsert that appends the id to the index without looking for it
upsertAlwaysIndexing(store, id, content, embedding, metadata) ==
  LET vector == [id |-> id, content |-> content, embedding |-> embedding,
                 metadata |-> metadata]
      stored == VPut(store, VECTORS_PREFIX \o id, StringifyVector(vector))
  IN VPut(stored, VECTORS_KEY, StringifyIndex(Append(getIndex(stored), id)))

\* upsert: puts the record, then adds the id to the index when it is new
upsert(store, id, content, embedding, metadata) ==
  LET vector == [id |-> id, content |-> content, embedding |-> embedding,
                 metadata |-> metadata]
      stored == VPut(store, VECTORS_PREFIX \o id, StringifyVector(vector))
      index == getIndex(stored)
  IN IF ~IndexIncludes(index, id)
       THEN VPut(stored, VECTORS_KEY, StringifyIndex(Append(index, id)))
       ELSE stored

\* a delete that deletes the record and leaves the index as it is
deleteRecordOnly(store, id) == VDelete(store, VECTORS_PREFIX \o id)

\* delete: deletes the record, then writes the index without the id
delete(store, id) ==
  LET deleted == VDelete(store, VECTORS_PREFIX \o id)
      index == getIndex(deleted)
      newIndex == SelectSeq(index, LAMBDA i : i # id)
  IN VPut(deleted, VECTORS_KEY, StringifyIndex(newIndex))

\* stats
stats(store) == [count |-> Len(getIndex(store))]

\* sum of a[i] * b[i]
RECURSIVE Dot(_, _, _)
Dot(a, b, n) == IF n = 0 THEN 0 ELSE Dot(a, b, n - 1) + a[n] * b[n]

\* A score dotProduct / (sqrt(normA) * sqrt(normB)) is kept as the pair of
\* dotProduct and normA * normB; the score 0 of a zero magnitude is 0 / 1.
ZeroScore == [dot |-> 0, norms |-> 1]

\* x * |x|
SignedSquare(x) == IF x < 0 THEN 0 - x * x ELSE x * x

\* s1 <= s2 on scores
ScoreLeq(s1, s2) ==
  SignedSquare(s1.dot) * s2.norms <= SignedSquare(s2.dot) * s1.norms

\* a similarity that compares the common prefix of vectors of unequal length
cosineSimilarityOfPrefix(a, b) ==
  LET n == Min({Len(a), Len(b)})
      dotProduct == Dot(a, b, n)
      normA == Dot(a, a, n)
      normB == Dot(b, b, n)
  IN [ok |-> TRUE,
      score |-> IF normA * normB = 0 THEN ZeroScore
                ELSE [dot |-> dotProduct, norms |-> normA * normB]]

\* cosineSimilarity: throws when the lengths differ; 0 for a zero magnitude
cosineSimilarity(a, b) ==
  LET dotProduct == Dot(a, b, Len(a))
      normA == Dot(a, a, Len(a))
      normB == Dot(b, b, Len(a))
  IN IF Len(a) # Len(b) THEN [ok |-> FALSE, error |-> "Vectors must have the same length"]
     ELSE [ok |-> TRUE,
           score |-> IF normA * normB = 0 THEN ZeroScore
                     ELSE [dot |-> dotProduct, norms |-> normA * normB]]

\* scored.sort((a, b) => b.score - a.score): descending, equal scores in
\* their order of arrival
RECURSIVE SortByScore(_)
SortByScore(scored) ==
  IF Len(scored) = 0 THEN <<>>
  ELSE LET sorted == SortByScore(SubSeq(scored, 1, Len(scored) - 1))
           x == scored[Len(scored)]
           \* x goes after the entries scoring at least as much
           before == Cardinality({k \in 1..Len(sorted) : ScoreLeq(x.score, sorted[k].score)})
       IN SubSeq(sorted, 1, before) \o <<x>> \o SubSeq(sorted, before + 1, Len(sorted))

\* a search that returns the first topK vectors in index order
searchUnsorted(store, queryEmbedding, topK) ==
  LET index == getIndex(store)
      present == SelectSeq(index, LAMBDA id : VGet(store, VECTORS_PREFIX \o id) # Null)
      vectors == [k \in 1..Len(present) |-> ParseVector(VGet(store, VECTORS_PREFIX \o present[k]))]
      similarity == [k \in 1..Len(vectors) |-> cosineSimilarity(queryEmbedding, vectors[k].embedding)]
      scored == [k \in 1..Len(vectors) |->
                   [content |-> vectors[k].content, metadata |-> vectors[k].metadata,
                    score |-> similarity[k].score]]
  IN IF Len(index) = 0 THEN [ok |-> TRUE, results |-> <<>>]
     ELSE IF \E k \in 1..Len(vectors) : ~similarity[k].ok
       THEN [ok |-> FALSE, error |-> "Vectors must have the same length"]
     ELSE [ok |-> TRUE, results |-> SubSeq(scored, 1, Min({topK, Len(scored)}))]

\* search: every record of the index is read and scored, an exception of
\* cosineSimilarity ends the search; the scored list is sorted and cut
search(store, queryEmbedding, topK) ==
  LET index == getIndex(store)
      present == SelectSeq(index, LAMBDA id : VGet(store, VECTORS_PREFIX \o id) # Null)
      vectors == [k \in 1..Len(present) |-> ParseVector(VGet(store, VECTORS_PREFIX \o present[k]))]
      similarity == [k \in 1..Len(vectors) |-> cosineSimilarity(queryEmbedding, vectors[k].embedding)]
      scored == [k \in 1..Len(vectors) |->
                   [content |-> vectors[k].content, metadata |-> vectors[k].metadata,
                    score |-> similarity[k].score]]
      sorted == SortByScore(scored)
  IN IF Len(index) = 0 THEN [ok |-> TRUE, results |-> <<>>]
     ELSE IF \E k \in 1..Len(vectors) : ~similarity[k].ok
       THEN [ok |-> FALSE, error |-> "Vectors must have the same length"]
     ELSE [ok |-> TRUE, results |-> SubSeq(sorted, 1, Min({topK, Len(sorted)}))]

(***************************************************************************)
(* Leads provider (providers/leads/supabase.ts)                            *)
(***************************************************************************)
\* the capture-lead function and its table: insert-only, email unique
CaptureLeadFunction(table, lead) ==
  IF \E k \in 1..Len(table) : table[k].email = lead.email
    THEN [ok |-> FALSE, captured |-> FALSE, error |-> "Email already registered",
          table |-> table]
    ELSE [ok |-> TRUE, captured |-> TRUE, error |-> "none", table |-> Append(table, lead)]

\* a provider that refuses the email when the validate-email function does
\* not answer 2xx
ProviderValidateEmailNoFallback(email, validator) ==
  CASE validator = "valid" -> [valid |-> TRUE, reason |-> "none"]
    [] OTHER -> [valid |-> FALSE, reason |-> "Rejected by the validator"]

\* SupabaseLeadsProvider.validateEmail: the answer of the validate-email
\* function when it answers 2xx, else the local validation
ProviderValidateEmail(email, validator) ==
  CASE validator = "valid" -> [valid |-> TRUE, reason |-> "none"]
    [] validator = "invalid" -> [valid |-> FALSE, reason |-> "Rejected by the validator"]
    [] OTHER -> ValidationOf(email)

\* a saveLead that reports every lead it was handed as captured
saveLeadAlwaysCaptured(table, lead, store) ==
  [result |-> [captured |-> TRUE, validationMessage |-> "none"],
   table |-> IF store = "up" THEN CaptureLeadFunction(table, lead).table ELSE table]

\* SupabaseLeadsProvider.saveLead: never throws; captured is true only for a
\* 2xx answer of the function
saveLead(table, lead, store) ==
  CASE store = "down" ->
         [result |-> [captured |-> FALSE,
                      validationMessage |-> "An error occurred while saving your information"],
          table |-> table]
    [] store = "error" ->
         [result |-> [captured |-> FALSE, validationMessage |-> "Failed to save lead information"],
          table |-> table]
    [] OTHER ->
         LET response == CaptureLeadFunction(table, lead)
         IN IF ~response.ok
              THEN [result |-> [captured |-> FALSE,
                                validationMessage |->
                                  IF response.error = "Email already registered"
                                    THEN "This email has already been registered"
                                    ELSE response.error],
                    table |-> response.table]
              ELSE [result |-> [captured |-> response.captured, validationMessage |-> "none"],
                    table |-> response.table]

(***************************************************************************)
(* The /chat handler (routes/chat.ts)                                      *)
(***************************************************************************)
\* a || b on optional strings
OrElse(a, b) == IF a # Absent THEN a ELSE b

\* the chain with the "no email" test moved ahead of the "name just provided" one
LeadCaptureStepEmailFirst(leadInfo, accumulatedLeadInfo, leadCaptureInProgress) ==
  LET combinedName == OrElse(leadInfo.name, accumulatedLeadInfo.name)
      combinedEmail == OrElse(leadInfo.email, accumulatedLeadInfo.email)
      emailValidation == IF combinedEmail # Absent THEN ValidationOf(combinedEmail) ELSE Null
      nameJustProvided == leadInfo.name # Absent /\ accumulatedLeadInfo.name = Absent
      hasName == combinedName # Absent
      hasEmail == combinedEmail # Absent
      NoForm == [show |-> FALSE, name |-> Absent, email |-> Absent]
      Form == [show |-> TRUE, name |-> combinedName, email |-> combinedEmail]
  IN IF ~hasName
       THEN [state |-> "NEED_NAME", nextLeadCaptureInProgress |-> TRUE, leadForm |-> NoForm]
     ELSE IF ~hasEmail
       THEN [state |-> "NEED_EMAIL", nextLeadCaptureInProgress |-> TRUE, leadForm |-> Form]
     ELSE IF nameJustProvided /\ ~hasEmail
       THEN [state |-> "NAME_JUST_PROVIDED", nextLeadCaptureInProgress |-> TRUE,
             leadForm |-> NoForm]
     ELSE IF hasEmail /\ emailValidation # Null /\ ~emailValidation.valid
       THEN [state |-> "INVALID_EMAIL", nextLeadCaptureInProgress |-> TRUE, leadForm |-> Form]
     ELSE [state |-> "COMPLETE", nextLeadCaptureInProgress |-> FALSE, leadForm |-> NoForm]

\* Step 6 of handleChat: the branch of the lead-capture chain that is taken.
\* state names the directive appended to the user message.
LeadCaptureStep(leadInfo, accumulatedLeadInfo, leadCaptureInProgress) ==
  LET combinedName == OrElse(leadInfo.name, accumulatedLeadInfo.name)
      combinedEmail == OrElse(leadInfo.email, accumulatedLeadInfo.email)
      emailValidation == IF combinedEmail # Absent THEN ValidationOf(combinedEmail) ELSE Null
      nameJustProvided == leadInfo.name # Absent /\ accumulatedLeadInfo.name = Absent
      hasName == combinedName # Absent
      hasEmail == combinedEmail # Absent
      NoForm == [show |-> FALSE, name |-> Absent, email |-> Absent]
      Form == [show |-> TRUE, name |-> combinedName, email |-> combinedEmail]
  IN IF ~hasName
       THEN [state |-> "NEED_NAME", nextLeadCaptureInProgress |-> TRUE, leadForm |-> NoForm]
     ELSE IF nameJustProvided /\ ~hasEmail
       THEN [state |-> "NAME_JUST_PROVIDED", nextLeadCaptureInProgress |-> TRUE,
             leadForm |-> NoForm]
     ELSE IF hasEmail /\ emailValidation # Null /\ ~emailValidation.valid
       THEN [state |-> "INVALID_EMAIL", nextLeadCaptureInProgress |-> TRUE, leadForm |-> Form]
     ELSE IF ~hasEmail
       THEN [state |-> "NEED_EMAIL", nextLeadCaptureInProgress |-> TRUE, leadForm |-> Form]
     ELSE IF hasEmail /\ emailValidation # Null /\ emailValidation.valid
       THEN [state |-> "COMPLETE", nextLeadCaptureInProgress |-> FALSE, leadForm |-> NoForm]
     ELSE [state |-> "NONE", nextLeadCaptureInProgress |-> leadCaptureInProgress,
           leadForm |-> NoForm]

\* parseInt(phone.replace(/\D/g, ''), 10), as its decimal digits; Absent for
\* NaN and for 0, which the handler both turn into undefined
PhoneNumber(phone) ==
  LET digits == KeepChars(phone, Digit)
      nonzero == {k \in 1..Len(digits) : digits[k] # "0"}
  IN IF phone = Absent \/ nonzero = {} THEN Absent
     ELSE SubSeq(digits, Min(nonzero), Len(digits))

\* a lead-save path that inserts before it asks the validate-email function
processLeadCaptureInsertFirst(table, enabled, leadInfo, validator, store) ==
  LET lead == [name |-> leadInfo.name, email |-> leadInfo.email,
               phone |-> PhoneNumber(leadInfo.phone), valid_email |-> TRUE]
      saved == saveLead(table, lead, store)
  IN IF ~enabled \/ leadInfo.email = Absent
       THEN [result |-> Null, table |-> table, calls |-> <<>>, insert |-> Null]
     ELSE [result |-> saved.result, table |-> saved.table,
           calls |-> <<"capture-lead", "validate-email">>, insert |-> lead]

\* processLeadCaptureWithInfo: local validation, the provider's validation,
\* then the insert.  result is null or the LeadCaptureResult; insert is the
\* LeadData handed to saveLead, or null when saveLead is not called.
processLeadCaptureWithInfo(table, enabled, leadInfo, validator, store) ==
  LET Skip(result, calls) ==
        [result |-> result, table |-> table, calls |-> calls, insert |-> Null]
  IN IF ~enabled THEN Skip(Null, <<>>)
     ELSE IF leadInfo.email = Absent THEN Skip(Null, <<>>)
     ELSE IF ~ValidationOf(leadInfo.email).valid
       THEN Skip([captured |-> FALSE,
                  validationMessage |-> ValidationOf(leadInfo.email).reason], <<>>)
     ELSE IF ~ProviderValidateEmail(leadInfo.email, validator).valid
       THEN Skip([captured |-> FALSE,
                  validationMessage |-> ProviderValidateEmail(leadInfo.email, validator).reason],
                 <<"validate-email">>)
     ELSE LET lead == [name |-> leadInfo.name, email |-> leadInfo.email,
                       phone |-> PhoneNumber(leadInfo.phone), valid_email |-> TRUE]
              saved == saveLead(table, lead, store)
          IN [result |-> saved.result, table |-> saved.table,
              calls |-> <<"validate-email", "capture-lead">>, insert |-> lead]

\* the error of the catch-all of handleChat
ProcessingError == "An error occurred processing your request"

\* scores are in thousandths: r.score > 0.5 makes a result a source
SourceScore == 500

\* r.score > 0.3 makes a result a context chunk; a turn whose results are all
\* at or under it is a knowledge gap
GapScore == 300

\* the urls of the results scoring over 0.5, without repetitions, in order
Sources(searchResults) ==
  LET urls == SelectSeq(searchResults, LAMBDA r : r.score > SourceScore /\ r.url # Absent)
      f[k \in 0..Len(urls)] ==
        IF k = 0 THEN <<>>
        ELSE IF \E j \in 1..(k - 1) : urls[j].url = urls[k].url THEN f[k - 1]
        ELSE Append(f[k - 1], urls[k].url)
  IN f[Len(urls)]

\* a gap only when every score is under 0.3
isKnowledgeGapStrictlyUnder(message, searchResults, leadCaptureInProgress) ==
  /\ ~leadCaptureInProgress
  /\ ~NoiseOf(message)
  /\ \/ Len(searchResults) = 0
     \/ \A k \in 1..Len(searchResults) : searchResults[k].score < GapScore

\* isKnowledgeGap
isKnowledgeGap(message, searchResults, leadCaptureInProgress) ==
  /\ ~leadCaptureInProgress
  /\ ~NoiseOf(message)
  /\ \/ Len(searchResults) = 0
     \/ \A k \in 1..Len(searchResults) : searchResults[k].score <= GapScore

\* the async block handed to ctx.waitUntil: the chat log entry, then the
\* knowledge gap when the turn is one.  pc is the statement it waits on.
BackgroundWork(sessionId, userMessage, response, searchResults, leadCaptureInProgress, analytics) ==
  [pc |-> "logChat", analytics |-> analytics,
   session_id |-> sessionId, message |-> userMessage, response |-> response,
   context_chunks |-> Len(SelectSeq(searchResults, LAMBDA r : r.score > GapScore)),
   gap |-> isKnowledgeGap(userMessage, searchResults, leadCaptureInProgress),
   bestScore |-> IF Len(searchResults) > 0
                   THEN Max({searchResults[k].score : k \in 1..Len(searchResults)})
                   ELSE 0,
   existing |-> 0, sessions |-> <<>>]

\* entry.message.slice(0, 500), entry.question.slice(0, 500)
MessageLogLength == 500

\* entry.response.slice(0, 1000)
ResponseLogLength == 1000

\* logChat: one INSERT INTO chat_logs; an exception is logged and swallowed
logChat(db, entry, ok) ==
  IF ~ok THEN db
  ELSE [db EXCEPT !.chat_logs =
          Append(@, [session_id |-> entry.session_id,
                     message |-> Slice(entry.message, 1, Min({MessageLogLength, Len(entry.message)})),
                     response |-> Slice(entry.response, 1, Min({ResponseLogLength, Len(entry.response)})),
                     context_chunks |-> entry.context_chunks])]

\* sample_sessions keeps at most this many session ids
MaxSampleSessions == 5

\* logKnowledgeGap without the status in its SELECT: the first row of the
\* normalized question, resolved or not
SelectAnyGap(db, normalized) ==
  LET rows == {k \in 1..Len(db.knowledge_gaps) :
                 db.knowledge_gaps[k].question_normalized = normalized}
  IN IF rows = {} THEN 0 ELSE Min(rows)

\* logKnowledgeGap, the SELECT: the id (position) of the first active row of
\* the normalized question, 0 when there is none
SelectActiveGap(db, normalized) ==
  LET rows == {k \in 1..Len(db.knowledge_gaps) :
                 /\ db.knowledge_gaps[k].question_normalized = normalized
                 /\ db.knowledge_gaps[k].status = "active"}
  IN IF rows = {} THEN 0 ELSE Min(rows)

\* the session added whenever it is new
SampleSessionsUncapped(sessions, sessionId) ==
  IF \A k \in 1..Len(sessions) : sessions[k] # sessionId
    THEN Append(sessions, sessionId) ELSE sessions

\* logKnowledgeGap, the session list written back: the row's list with the
\* session added when it is new and the list holds fewer than five
SampleSessions(sessions, sessionId) ==
  IF (\A k \in 1..Len(sessions) : sessions[k] # sessionId) /\ Len(sessions) < MaxSampleSessions
    THEN Append(sessions, sessionId) ELSE sessions

\* logKnowledgeGap, the UPDATE ... WHERE id = ?
UpdateGap(db, id, sessions, bestScore) ==
  [db EXCEPT !.knowledge_gaps[id] =
     [@ EXCEPT !.occurrence_count = @ + 1,
               !.sample_sessions = sessions,
               !.best_score = Max({@, bestScore})]]

\* logKnowledgeGap, the INSERT (occurrence_count and status take their defaults)
InsertGap(db, question, normalized, bestScore, sessionId) ==
  [db EXCEPT !.knowledge_gaps =
     Append(@, [question |-> Slice(question, 1, Min({MessageLogLength, Len(question)})),
                question_normalized |-> normalized,
                best_score |-> bestScore,
                occurrence_count |-> 1,
                sample_sessions |-> <<sessionId>>,
                status |-> "active",
                resolution_note |-> Undefined])]

\* logKnowledgeGap run from its SELECT to its write with nothing in between:
\* the active row of the normalized question is updated, or a row is
\* inserted when there is none; an exception at either statement is logged
\* and swallowed, and nothing is written
logKnowledgeGap(db, entry, analytics) ==
  IF analytics \in {"select", "write"} THEN db
  ELSE With(SelectActiveGap(db, NormalizedOf(entry.question)),
            LAMBDA existing :
              IF existing # 0
                THEN UpdateGap(db, existing,
                               SampleSessions(db.knowledge_gaps[existing].sample_sessions,
                                              entry.sessionId),
                               entry.bestScore)
                ELSE InsertGap(db, entry.question, NormalizedOf(entry.question),
                               entry.bestScore, entry.sessionId))

\* handleResolveGap: reading the body throws when it is not JSON, and reading
\* its note throws when it is null: both are answered 500; otherwise the row
\* of the id, if there is one, is set to resolved with the note, and the
\* answer is success either way
handleResolveGap(db, body, gapId) ==
  IF ~body.json \/ body.isNull
    THEN [d1 |-> db, out |-> [status |-> 500, error |-> "Failed to resolve gap"]]
  ELSE [d1 |-> IF gapId \in 1..Len(db.knowledge_gaps)
                 THEN [db EXCEPT !.knowledge_gaps[gapId] =
                         [status |-> "resolved", resolution_note |-> body.note] @@ @]
                 ELSE db,
        out |-> [status |-> 200, success |-> TRUE]]

\* a response that waits for the background work and fails with it
ChatResponseAwaitingAnalytics(result, work) ==
  IF work.analytics # "up"
    THEN [result EXCEPT !.status = 500, !.error = ProcessingError, !.response = Absent]
    ELSE result

\* return Response.json(result): the background work is handed to
\* ctx.waitUntil and not awaited
ChatResponse(result, work) == result

\* a request that ends early after calling its last collaborator a second time
RejectedAfterRetry(sessionId, body, status, error, calls) ==
  [sessionId |-> sessionId, body |-> body, status |-> status, error |-> error,
   calls |-> IF calls = <<>> THEN calls ELSE Append(calls, calls[Len(calls)]),
   state |-> "NONE", extracted |-> EmptyLeadInfo,
   accumulated |-> EmptyLeadInfo, flagBefore |-> FALSE, flag |-> FALSE,
   response |-> Absent, leadCaptured |-> Undefined,
   leadForm |-> [show |-> FALSE, name |-> Absent, email |-> Absent],
   insert |-> Null, leadResult |-> Null, sources |-> <<>>]

\* the response and trace of a request that ends before any state is touched
Rejected(sessionId, body, status, error, calls) ==
  [sessionId |-> sessionId, body |-> body, status |-> status, error |-> error,
   calls |-> calls, state |-> "NONE", extracted |-> EmptyLeadInfo,
   accumulated |-> EmptyLeadInfo, flagBefore |-> FALSE, flag |-> FALSE,
   response |-> Absent, leadCaptured |-> Undefined,
   leadForm |-> [show |-> FALSE, name |-> Absent, email |-> Absent],
   insert |-> Null, leadResult |-> Null, sources |-> <<>>]

\* handleChat.  env gives the answers of the collaborators during the
\* request: getOk/putOk of the five KV operations, which of the embedding,
\* search and LLM calls fails (provider), the LLM's reply, the answer of the
\* validate-email function and the state of the capture-lead function.
\* The result is the store, the lead table and the response with its trace.
handleChat(store, t, table, enabled, sessionId, body, env) ==
  LET userMessage == TrimOf(body)
      Unchanged(out) == [kv |-> store, leads |-> table, out |-> out, background |-> <<>>]
      \* Step 1
      conversation == getConversation(store, t, sessionId, env.readOk)
      previousMessages == formatPreviousMessages(conversation)
      accumulatedLeadInfo == getAccumulatedLeadInfo(conversation)
      leadCaptureInProgress ==
        IF conversation = Null \/ conversation.leadCaptureInProgress = Undefined
          THEN FALSE ELSE conversation.leadCaptureInProgress[1]
      \* Step 6
      leadInfo == LeadInfoOf(userMessage)
      step == IF enabled
                THEN LeadCaptureStep(leadInfo, accumulatedLeadInfo, leadCaptureInProgress)
                ELSE [state |-> "NONE", nextLeadCaptureInProgress |-> leadCaptureInProgress,
                      leadForm |-> [show |-> FALSE, name |-> Absent, email |-> Absent]]
      currentLeadInfo == IF enabled THEN leadInfo ELSE EmptyLeadInfo
      \* Step 8
      afterUser == addMessage(store, t, sessionId,
                              [role |-> "user", content |-> userMessage],
                              currentLeadInfo, <<step.nextLeadCaptureInProgress>>,
                              env.userGetOk, env.userPutOk)
      afterAssistant == addMessage(afterUser, t, sessionId,
                                   [role |-> "assistant", content |-> env.reply],
                                   EmptyLeadInfo, Undefined,
                                   env.asstGetOk, env.asstPutOk)
      \* Step 9
      combinedLeadInfoForCapture ==
        [name |-> OrElse(currentLeadInfo.name, accumulatedLeadInfo.name),
         email |-> OrElse(currentLeadInfo.email, accumulatedLeadInfo.email),
         phone |-> OrElse(currentLeadInfo.phone, accumulatedLeadInfo.phone)]
      capture ==
        IF enabled /\ combinedLeadInfoForCapture.email # Absent
          THEN processLeadCaptureWithInfo(table, enabled, combinedLeadInfoForCapture,
                                          env.validator, env.store)
          ELSE [result |-> Null, table |-> table, calls |-> <<>>, insert |-> Null]
      memoryCalls == <<"kv.get", "kv.put", "kv.get", "kv.put">>
      backgroundWork == BackgroundWork(sessionId, userMessage, env.reply, env.results,
                                       leadCaptureInProgress, env.analytics)
      Failed(calls) ==
        [Rejected(sessionId, body, 500, ProcessingError, calls)
           EXCEPT !.state = step.state, !.extracted = currentLeadInfo,
                  !.accumulated = accumulatedLeadInfo,
                  !.flagBefore = leadCaptureInProgress,
                  !.flag = step.nextLeadCaptureInProgress]
  IN IF Len(body) = 0
       THEN Unchanged(Rejected(sessionId, body, 400, "Message is required", <<>>))
     ELSE IF Len(userMessage) = 0
       THEN Unchanged(Rejected(sessionId, body, 400, "Message cannot be empty", <<>>))
     ELSE IF Len(userMessage) > MaxMessageLength
       THEN Unchanged(Rejected(sessionId, body, 400,
                               "Message too long (max 2000 characters)", <<>>))
     ELSE IF env.provider = "embed"
       THEN Unchanged(Rejected(sessionId, body, 500, ProcessingError, <<"kv.get", "embed">>))
     ELSE IF env.provider = "search"
       THEN Unchanged(Rejected(sessionId, body, 500, ProcessingError,
                               <<"kv.get", "embed", "search">>))
     ELSE IF env.provider = "llm"
       THEN Unchanged(Failed(<<"kv.get", "embed", "search", "llm">>))
     ELSE [kv |-> afterAssistant,
           leads |-> capture.table,
           background |-> <<backgroundWork>>,
           out |-> ChatResponse(
                   [sessionId |-> sessionId, body |-> body, status |-> 200,
                    error |-> "none",
                    calls |-> <<"kv.get", "embed", "search", "llm">> \o memoryCalls
                              \o capture.calls,
                    state |-> step.state,
                    extracted |-> currentLeadInfo,
                    accumulated |-> accumulatedLeadInfo,
                    flagBefore |-> leadCaptureInProgress,
                    flag |-> step.nextLeadCaptureInProgress,
                    response |-> env.reply,
                    leadCaptured |-> IF capture.result = Null THEN Undefined
                                     ELSE <<capture.result.captured>>,
                    leadForm |-> step.leadForm,
                    insert |-> capture.insert,
                    leadResult |-> capture.result,
                    sources |-> Sources(env.results)],
                   backgroundWork)]

\* What request.json() makes of the request body: it throws (json FALSE),
\* or yields null, or a value whose message property is read.  The message is
\* a string, or a value of another type of which only the truthiness counts
\* (undefined when the property is missing).
NotJson == [json |-> FALSE]

JsonNull == [json |-> TRUE, isNull |-> TRUE]

JsonWith(message) == [json |-> TRUE, isNull |-> FALSE, message |-> message]

StringMessage(s) == [type |-> "string", value |-> s]

NoMessage == [type |-> "undefined", truthy |-> FALSE]

NumberMessage == [type |-> "number", truthy |-> TRUE]

\* !!value
Truthy(value) == IF value.type = "string" THEN Len(value.value) > 0 ELSE value.truthy

\* handleChat from the request body on: the body that is not JSON is answered
\* 400; reading the message of null throws inside the try block, which the
\* catch answers with the processing error; a message that is missing, falsy
\* or not a string is answered 400; every other message goes on.
handleChatRequest(store, t, table, enabled, sessionId, request, env) ==
  LET Unchanged(out) == [kv |-> store, leads |-> table, out |-> out, background |-> <<>>]
  IN IF ~request.json
       THEN Unchanged(Rejected(sessionId, <<>>, 400, "Invalid JSON in request body", <<>>))
     ELSE IF request.isNull
       THEN Unchanged(Rejected(sessionId, <<>>, 500, ProcessingError, <<>>))
     ELSE IF ~Truthy(request.message) \/ request.message.type # "string"
       THEN Unchanged(Rejected(sessionId, <<>>, 400, "Message is required", <<>>))
     ELSE handleChat(store, t, table, enabled, sessionId, request.message.value, env)

\* a streaming handler that leaves the background work of a chat turn behind
handleChatStreamRecordingGaps(store, table, sessionId, body, env) ==
  LET userMessage == TrimOf(body)
      Answer(status, error, calls, notes, stream) ==
        [kv |-> store, leads |-> table,
         background |-> IF status = 200
                          THEN <<BackgroundWork(sessionId, userMessage, env.reply,
                                                env.results, FALSE, env.analytics)>>
                          ELSE <<>>,
         out |-> [sessionId |-> sessionId, status |-> status,
                  error |-> error, calls |-> calls, notes |-> notes, stream |-> stream]]
  IN IF Len(body) = 0 THEN Answer(400, "Message is required", <<>>, "none", Absent)
     ELSE IF Len(userMessage) = 0
       THEN Answer(400, "Message cannot be empty", <<>>, "none", Absent)
     ELSE IF Len(userMessage) > MaxMessageLength
       THEN Answer(400, "Message too long (max 2000 characters)", <<>>, "none", Absent)
     ELSE IF env.provider = "embed"
       THEN Answer(500, ProcessingError, <<"embed">>, "none", Absent)
     ELSE IF env.provider = "search"
       THEN Answer(500, ProcessingError, <<"embed", "search">>, "none", Absent)
     ELSE IF env.provider = "llm"
       THEN Answer(500, ProcessingError, <<"embed", "search", "llm.chatStream">>, "none", Absent)
     ELSE Answer(200, "none", <<"embed", "search", "llm.chatStream">>,
                 IF \E k \in 1..Len(env.results) : env.results[k].score > GapScore
                   THEN "context"
                 ELSE IF Len(env.results) = 0 THEN "empty" ELSE "none",
                 env.reply)

\* handleChatStream from the message of the body on: the checks of the
\* message, embed, search, the system messages (the context of the results
\* over 0.3, or the note of the empty knowledge base), llm.chatStream; the
\* catch answers the processing error.  It is handed the stores of the worker
\* and returns them with the response: kv, leads and the background work it
\* leaves behind.
handleChatStream(store, table, sessionId, body, env) ==
  LET userMessage == TrimOf(body)
      Answer(status, error, calls, notes, stream) ==
        [kv |-> store, leads |-> table, background |-> <<>>,
         out |-> [sessionId |-> sessionId, status |-> status,
                  error |-> error, calls |-> calls, notes |-> notes, stream |-> stream]]
  IN IF Len(body) = 0 THEN Answer(400, "Message is required", <<>>, "none", Absent)
     ELSE IF Len(userMessage) = 0
       THEN Answer(400, "Message cannot be empty", <<>>, "none", Absent)
     ELSE IF Len(userMessage) > MaxMessageLength
       THEN Answer(400, "Message too long (max 2000 characters)", <<>>, "none", Absent)
     ELSE IF env.provider = "embed"
       THEN Answer(500, ProcessingError, <<"embed">>, "none", Absent)
     ELSE IF env.provider = "search"
       THEN Answer(500, ProcessingError, <<"embed", "search">>, "none", Absent)
     ELSE IF env.provider = "llm"
       THEN Answer(500, ProcessingError, <<"embed", "search", "llm.chatStream">>, "none", Absent)
     ELSE Answer(200, "none", <<"embed", "search", "llm.chatStream">>,
                 IF \E k \in 1..Len(env.results) : env.results[k].score > GapScore
                   THEN "context"
                 ELSE IF Len(env.results) = 0 THEN "empty" ELSE "none",
                 env.reply)

\* handleChatStream from the request body on
handleChatStreamRequest(store, table, sessionId, request, env) ==
  LET Early(status, error) ==
        [kv |-> store, leads |-> table, background |-> <<>>,
         out |-> [sessionId |-> sessionId, status |-> status,
                  error |-> error, calls |-> <<>>, notes |-> "none", stream |-> Absent]]
  IN IF ~request.json THEN Early(400, "Invalid JSON in request body")
     ELSE IF request.isNull THEN Early(500, ProcessingError)
     ELSE IF ~Truthy(request.message) \/ request.message.type # "string"
       THEN Early(400, "Message is required")
     ELSE handleChatStream(store, table, sessionId, request.message.value, env)

(***************************************************************************)
(* Ingestion (routes/ingest.ts)                                            *)
(***************************************************************************)
\* the characters of code 32 to 126, in the order of their codes (the grave
\* accent, code 96, by its name)
Ascii ==
  <<" ", "!", "\"", "#", "$", "%%", "&", "'", "(", ")", "*", "+", ",", "-",
     ".", "/", "0", "1", "2", "3", "4", "5", "6", "7", "8", "9", ":", ";",
     "<", "=", ">", "?", "@", "A", "B", "C", "D", "E", "F", "G", "H", "I",
     "J", "K", "L", "M", "N", "O", "P", "Q", "R", "S", "T", "U", "V", "W",
     "X", "Y", "Z", "[", "\\", "]", "^", "_", "grave", "a", "b", "c", "d", "e",
     "f", "g", "h", "i", "j", "k", "l", "m", "n", "o", "p", "q", "r", "s",
     "t", "u", "v", "w", "x", "y", "z", "{", "|", "}", "~">>

FirstCode == 32

CharCode(c) == FirstCode - 1 + CHOOSE k \in 1..Len(Ascii) : Ascii[k] = c

Base64Alphabet == UpperSeq \o LowerSeq \o DecimalDigits \o <<"+", "/">>

\* btoa(s): every three bytes written as four characters of the alphabet,
\* the last group padded with "="
btoa(s) ==
  LET n == Len(s)
      Byte(k) == IF k <= n THEN CharCode(s[k]) ELSE 0
      Bits(g) == Byte(3 * g - 2) * 65536 + Byte(3 * g - 1) * 256 + Byte(3 * g)
      Sextet(g, j) == CASE j = 1 -> Bits(g) \div 262144
                        [] j = 2 -> (Bits(g) \div 4096) % 64
                        [] j = 3 -> (Bits(g) \div 64) % 64
                        [] j = 4 -> Bits(g) % 64
      Char(g, j) == IF (j = 3 /\ 3 * g - 1 > n) \/ (j = 4 /\ 3 * g > n) THEN "="
                    ELSE Base64Alphabet[Sextet(g, j) + 1]
  IN [p \in 1..(4 * ((n + 2) \div 3)) |-> Char(((p - 1) \div 4) + 1, ((p - 1) % 4) + 1)]

SourceIdLength == 32

\* btoa(url).replace(/[^a-zA-Z0-9]/g, '').slice(0, 32)
UrlSourceId(url) ==
  LET alnum == {Base64Alphabet[k] : k \in 1..62}
  IN JsSlice(SelectSeq(btoa(url), LAMBDA c : c \in alnum), 0, SourceIdLength)

\* metadata?.url ? (the id of the url) : crypto.randomUUID()
SourceId(metadata, uuid) ==
  IF metadata # Undefined /\ Len(metadata[1].url) > 0
    THEN UrlSourceId(metadata[1].url)
    ELSE uuid

\* the loop of upserts over the chunks 1..n of a document
RECURSIVE StoreChunks(_, _, _, _, _, _)
StoreChunks(store, sourceId, chunks, embedding, metadata, n) ==
  IF n = 0 THEN store
  ELSE With(StoreChunks(store, sourceId, chunks, embedding, metadata, n - 1),
            LAMBDA stored :
              upsert(stored, generateChunkId(sourceId, chunks[n].index),
                     chunks[n].content, embedding, metadata))

ChunkIds(sourceId, chunks) ==
  [k \in 1..Len(chunks) |-> generateChunkId(sourceId, chunks[k].index)]

IngestionError == [status |-> 500, error |-> "An error occurred during ingestion"]

JsonDocument(content, metadata) ==
  [json |-> TRUE, isNull |-> FALSE, content |-> content, metadata |-> metadata]

\* an ingestion that first drops the records stored under the source id
StoreDocumentClearingSource(store, sourceId, chunks, env) ==
  LET prefix == VECTORS_PREFIX \o sourceId
      kept == {key \in DOMAIN store :
                 Len(key) < Len(prefix) \/ SubSeq(key, 1, Len(prefix)) # prefix}
      cleared == [key \in kept |-> store[key]]
  IN IF env.embeddings = "down" THEN [vkv |-> store, out |-> IngestionError]
     ELSE [vkv |-> StoreChunks(cleared, sourceId, chunks, env.embedding, env.metadata,
                               Len(chunks)),
           out |-> [status |-> 200, success |-> TRUE, count |-> Len(chunks),
                    sourceId |-> sourceId, chunks |-> ChunkIds(sourceId, chunks)]]

\* the chunks of a document embedded and upserted one by one, and the answer
StoreDocument(store, sourceId, chunks, env) ==
  IF env.embeddings = "down" THEN [vkv |-> store, out |-> IngestionError]
  ELSE [vkv |-> StoreChunks(store, sourceId, chunks, env.embedding, env.metadata,
                            Len(chunks)),
        out |-> [status |-> 200, success |-> TRUE, count |-> Len(chunks),
                 sourceId |-> sourceId, chunks |-> ChunkIds(sourceId, chunks)]]

\* handleIngest from the trimmed content on
IngestContent(store, content, metadata, uuid, env) ==
  IF Len(content) = 0
    THEN [vkv |-> store, out |-> [status |-> 400, error |-> "Content cannot be empty"]]
  ELSE With(<<SourceId(metadata, uuid), chunkText(content, CHUNK_SIZE, CHUNK_OVERLAP)>>,
            LAMBDA made :
              StoreDocument(store, made[1], made[2],
                            [embeddings |-> env.embeddings,
                             embedding |-> env.embedding, metadata |-> metadata]))

\* handleIngest: the body that is not JSON, the body null and the failure of
\* the embeddings provider are all caught and answered 500; content missing,
\* falsy or not a string is answered 400, and so is content that is empty
\* when trimmed; otherwise the chunks of the trimmed content are embedded and
\* upserted one by one under the ids of the source id.
handleIngest(store, body, uuid, env) ==
  IF ~body.json \/ body.isNull THEN [vkv |-> store, out |-> IngestionError]
  ELSE IF ~Truthy(body.content) \/ body.content.type # "string"
    THEN [vkv |-> store, out |-> [status |-> 400, error |-> "Content is required"]]
  ELSE IngestContent(store, Trim(body.content.value), body.metadata, uuid, env)

Unknown == <<"u", "n", "k", "n", "o", "w", "n">>

\* handleBulkIngest from the trimmed content of a document on: empty content
\* is chunked as any other
IngestContentOfBulk(store, content, metadata, uuid, env) ==
  With(<<SourceId(metadata, uuid), chunkText(content, CHUNK_SIZE, CHUNK_OVERLAP)>>,
       LAMBDA made :
         StoreDocument(store, made[1], made[2],
                       [embeddings |-> env.embeddings, embedding |-> env.embedding,
                        metadata |-> metadata]))

\* one document of handleBulkIngest after the documents before it: a document
\* without string content, or one whose embedding fails, is reported and
\* skipped
BulkDocument(before, doc, uuid, env) ==
  IF ~Truthy(doc.content) \/ doc.content.type # "string"
    THEN [before EXCEPT !.results =
            Append(@, [sourceId |-> Unknown, chunks |-> 0, error |-> "Invalid content"])]
  ELSE With(IngestContentOfBulk(before.vkv, Trim(doc.content.value), doc.metadata,
                                uuid, env),
            LAMBDA r :
              [vkv |-> r.vkv,
               results |-> Append(before.results,
                                  IF r.out.status = 200
                                    THEN [sourceId |-> r.out.sourceId,
                                          chunks |-> r.out.count]
                                    ELSE [sourceId |-> Unknown, chunks |-> 0,
                                          error |-> "embedding failed"])])

\* the loop of handleBulkIngest over the documents 1..n
RECURSIVE BulkLoop(_, _, _, _, _)
BulkLoop(store, documents, uuids, env, n) ==
  IF n = 0 THEN [vkv |-> store, results |-> <<>>]
  ELSE With(BulkLoop(store, documents, uuids, env, n - 1),
            LAMBDA before : BulkDocument(before, documents[n], uuids[n], env))

NotArray == [isArray |-> FALSE]

DocumentsArray(documents) == [isArray |-> TRUE, documents |-> documents]

\* handleBulkIngest: a documents field that is not an array is answered 400;
\* otherwise the documents are ingested in order and the answer is 200
handleBulkIngest(store, body, uuids, env) ==
  IF ~body.isArray
    THEN [vkv |-> store,
          out |-> [status |-> 400, error |-> "Documents array is required"]]
  ELSE LET done == BulkLoop(store, body.documents, uuids, env, Len(body.documents))
       IN [vkv |-> done.vkv,
           out |-> [status |-> 200, success |-> TRUE, results |-> done.results]]

(***************************************************************************)
(* The worker: one session, the answers of its collaborators, the clock    *)
(***************************************************************************)
SessionId == "s1"

\* the reply of the LLM
Reply == <<"o", "k">>

\* the urls of two documents
UrlA == <<"/", "a">>

UrlB == <<"/", "b">>

\* search results with two sources of one document and a result under 0.5
NominalResults ==
  << [score |-> 820, url |-> UrlA], [score |-> 640, url |-> UrlA],
     [score |-> 410, url |-> UrlB] >>

\* search results that are all at or under 0.3
LowResults == << [score |-> 250, url |-> UrlB] >>

\* every collaborator answers: KV reads and writes succeed, the embedding,
\* the search and the LLM answer, the validate-email function accepts the
\* email and the capture-lead function is reachable
NominalEnv ==
  [readOk |-> TRUE, provider |-> "ok", reply |-> Reply,
   userGetOk |-> TRUE, userPutOk |-> TRUE, asstGetOk |-> TRUE, asstPutOk |-> TRUE,
   validator |-> "valid", store |-> "up",
   results |-> NominalResults, analytics |-> "up"]

\* one collaborator answers otherwise during the request
FaultEnvs ==
  {[NominalEnv EXCEPT !.readOk = FALSE],
   [NominalEnv EXCEPT !.userGetOk = FALSE], [NominalEnv EXCEPT !.userPutOk = FALSE],
   [NominalEnv EXCEPT !.asstGetOk = FALSE], [NominalEnv EXCEPT !.asstPutOk = FALSE]}
  \cup {[NominalEnv EXCEPT !.provider = p] : p \in {"embed", "search", "llm"}}
  \cup {[NominalEnv EXCEPT !.validator = v] : v \in {"invalid", "down"}}
  \cup {[NominalEnv EXCEPT !.store = d] : d \in {"down", "error"}}

Envs == {NominalEnv} \cup FaultEnvs

MemoryOk(env) ==
  env.readOk /\ env.userGetOk /\ env.userPutOk /\ env.asstGetOk /\ env.asstPutOk

Range(f) == {f[k] : k \in DOMAIN f}

\* the clock advances by half a day at a time
TickSeconds == 12 * 60 * 60

MaxTurns == 3
MaxTicks == 2
MaxFaults == 1
MaxAppends == 11

\* no operation on the vector store yet
NoOperation == [op |-> "none", ops |-> 0, live |-> <<>>]

NoRequest ==
  [env |-> NominalEnv, alive |-> FALSE, out |-> Rejected(SessionId, <<>>, 0, "none", <<>>)]

\* the tables of the functions of the messages of the model, computed once
ChatTables ==
  [leadInfo |-> LeadInfoTable, validation |-> ValidationTable,
   noise |-> NoiseTable, normalized |-> NormalizedTable]

\* the chat worker at start, with the given tables
InitWith(tables) ==
  /\ kv = <<>>
  /\ now = 0
  /\ leads = <<>>
  /\ config \in {[leadsEnabled |-> TRUE], [leadsEnabled |-> FALSE]}
  /\ memo = tables
  /\ d1 = [chat_logs |-> <<>>, knowledge_gaps |-> <<>>]
  /\ background = <<>>
  /\ last = NoRequest
  /\ hist = [turns |-> 0, ticks |-> 0, faults |-> 0,
             \* chat turns: every request so far met the nominal conditions
             nominal |-> TRUE,
             \* the states and the inserts of the requests so far
             states |-> <<>>, inserts |-> <<>>,
             \* a COMPLETE turn was stored and no memory operation failed since
             complete |-> FALSE,
             \* the last request came after such a turn, to the record alive
             afterComplete |-> FALSE,
             \* appends: the writes done to the live record
             appends |-> 0, appended |-> <<>>, lead |-> EmptyLeadInfo,
             flag |-> Undefined, createdAt |-> 0, lastWriteAt |-> 0,
             \* the last append found an expired record and wrote
             restarted |-> FALSE]

InitChat == InitWith(ChatTables)

Init ==
  /\ InitChat
  /\ vkv = <<>>
  /\ res = NoOperation

Alive == getConversation(kv, now, SessionId, TRUE) # Null

\* a POST /chat of the session with the given body, the collaborators
\* answering as env says
Request(body, env) ==
  \E r \in {handleChat(kv, now, leads, config.leadsEnabled, SessionId, body, env)},
     after \in {hist.complete /\ Alive /\ MemoryOk(env)} :
     /\ kv' = r.kv
     /\ leads' = r.leads
     /\ last' = [env |-> env, alive |-> Alive, out |-> r.out]
     /\ hist' = [hist EXCEPT
                   !.turns = @ + 1,
                   !.faults = IF env = NominalEnv THEN @ ELSE @ + 1,
                   !.nominal = @ /\ MemoryOk(env) /\ env.provider = "ok"
                                 /\ env.validator # "invalid" /\ (hist.turns = 0 \/ Alive),
                   !.states = Append(@, r.out.state),
                   !.inserts = Append(@, r.out.insert),
                   !.complete = IF r.out.status # 200 THEN @
                                ELSE MemoryOk(env) /\ (after \/ r.out.state = "COMPLETE"),
                   !.afterComplete = after]
     /\ UNCHANGED <<now, config, memo, d1, background, vkv, res>>

HandleChat ==
  /\ hist.turns < MaxTurns
  /\ \E body \in Range(Messages), env \in Envs :
       /\ env # NominalEnv => hist.faults < MaxFaults
       /\ Request(body, env)

Tick ==
  /\ hist.ticks < MaxTicks
  /\ now' = now + TickSeconds
  /\ hist' = [hist EXCEPT !.ticks = @ + 1]
  /\ UNCHANGED <<kv, leads, config, memo, last, d1, background, vkv, res>>

Next == HandleChat \/ Tick

Spec == Init /\ [][Next]_vars

\* the arguments the model hands to addMessage
EmailA == <<"a", "@", "x", ".", "c", "o", "m">>

EmailB == <<"b", "@", "x", ".", "c", "o", "m">>

Deltas ==
  {EmptyLeadInfo,
   [name |-> Absent, email |-> EmailA, phone |-> Absent],
   [name |-> <<"A", "l">>, email |-> EmailB, phone |-> Absent]}

Flags == {Undefined, <<TRUE>>, <<FALSE>>}

DigitChars == <<"0", "1", "2", "3", "4", "5", "6", "7", "8", "9">>

\* the n-th message appended: its content is its number
MessageNo(n) ==
  [role |-> IF n % 2 = 1 THEN "user" ELSE "assistant",
   content |-> <<"m", DigitChars[(n \div 10) + 1], DigitChars[(n % 10) + 1]>>]

\* per field, the delta's value when it is non-empty, else the earlier one
MostRecent(earlier, delta) ==
  [f \in {"name", "email", "phone"} |-> IF delta[f] # Absent THEN delta[f] ELSE earlier[f]]

\* a call of addMessage for the session; hist follows the writes that
\* reached the store since the record was created
AddMessage ==
  /\ hist.appends < MaxAppends
  /\ \E delta \in Deltas, flag \in Flags, getOk \in BOOLEAN, putOk \in BOOLEAN :
       /\ (~getOk \/ ~putOk) => hist.faults < MaxFaults
       /\ LET message == MessageNo(hist.appends + 1)
              fresh == ~Alive
          IN /\ kv' = addMessage(kv, now, SessionId, message, delta, flag, getOk, putOk)
             /\ hist' = [hist EXCEPT
                   !.appends = @ + 1,
                   !.faults = IF getOk /\ putOk THEN @ ELSE @ + 1,
                   !.appended = IF ~putOk THEN @
                                ELSE IF fresh THEN <<message>> ELSE Append(@, message),
                   !.lead = IF ~putOk THEN @
                            ELSE MostRecent(IF fresh THEN EmptyLeadInfo ELSE @, delta),
                   !.flag = IF ~putOk THEN @
                            ELSE IF flag # Undefined THEN flag
                            ELSE IF fresh THEN Undefined ELSE @,
                   !.createdAt = IF putOk /\ fresh THEN now ELSE @,
                   !.lastWriteAt = IF putOk THEN now ELSE @,
                   !.restarted = putOk /\ fresh /\ hist.appended # <<>>]
             /\ UNCHANGED <<now, leads, config, memo, last, d1, background, vkv, res>>

NextMemory == AddMessage \/ Tick

SpecMemory == Init /\ [][NextMemory]_vars

\* the four-message conversation of the lead-capture flow, sent in order
Scenario == <<Hello, ImJordanLee, WhatServices, JordanEmail>>

ScenarioTurn ==
  /\ hist.turns < Len(Scenario)
  /\ \E env \in Envs :
       /\ env # NominalEnv => hist.faults < MaxFaults
       /\ Request(Scenario[hist.turns + 1], env)

NextScenario == ScenarioTurn \/ Tick

SpecScenario == Init /\ [][NextScenario]_vars

\* the request bodies of the POST /chat requests
Requests ==
  {NotJson, JsonNull, JsonWith(NoMessage), JsonWith(NumberMessage),
   JsonWith(StringMessage(<<>>))}
  \cup {JsonWith(StringMessage(b)) :
          b \in {Blank, Hello, WhatServices, SamRoy, AtLimit, OverLimit}}

\* the statement of the background work at which ANALYTICS_DB throws
AnalyticsFaults == {"logChat", "select", "write"}

\* the answers of the collaborators during a request and its background work
RequestEnvs ==
  Envs \cup {[NominalEnv EXCEPT !.results = LowResults]}
       \cup {[NominalEnv EXCEPT !.analytics = a, !.results = r] :
               a \in AnalyticsFaults, r \in {NominalResults, LowResults}}

\* a collaborator fails during the request or its background work
Faulty(env) == [env EXCEPT !.results = NominalResults] # NominalEnv

MaxRequests == 2

\* a POST /chat of the session with any request body: the response is
\* returned and the background work of the turn is left to run
PostChat ==
  /\ hist.turns < MaxRequests
  /\ \E request \in Requests, env \in RequestEnvs :
       /\ Faulty(env) => hist.faults < MaxFaults
       /\ \E r \in {handleChatRequest(kv, now, leads, config.leadsEnabled, SessionId,
                                      request, env)} :
             /\ kv' = r.kv
             /\ leads' = r.leads
             /\ background' = background \o r.background
             /\ last' = [env |-> env, alive |-> Alive, out |-> r.out, request |-> request]
             /\ hist' = [hist EXCEPT
                           !.turns = @ + 1,
                           !.faults = IF Faulty(env) THEN @ + 1 ELSE @,
                           !.states = Append(@, r.out.state),
                           !.inserts = Append(@, r.out.insert)]
             /\ UNCHANGED <<now, config, memo, d1, vkv, res>>

\* the background work of a turn runs logChat, then goes on to the knowledge
\* gap when the turn is one
LogChat ==
  \E i \in 1..Len(background) :
    LET work == background[i]
    IN /\ work.pc = "logChat"
       /\ d1' = logChat(d1, work, work.analytics # "logChat")
       /\ background' = [background EXCEPT ![i].pc = IF work.gap THEN "select" ELSE "done"]
       /\ UNCHANGED <<kv, now, leads, config, memo, last, hist, vkv, res>>

\* logKnowledgeGap reads the active row of the normalized question; an
\* exception ends the work
SelectGap ==
  \E i \in 1..Len(background) :
    LET work == background[i]
        id == SelectActiveGap(d1, NormalizedOf(work.message))
    IN /\ work.pc = "select"
       /\ background' =
            IF work.analytics = "select" THEN [background EXCEPT ![i].pc = "done"]
            ELSE [background EXCEPT
                    ![i].pc = "write", ![i].existing = id,
                    ![i].sessions = IF id = 0 THEN <<>>
                                    ELSE d1.knowledge_gaps[id].sample_sessions]
       /\ UNCHANGED <<kv, now, leads, config, memo, last, hist, d1, vkv, res>>

\* logKnowledgeGap updates the row it read, or inserts a new one; an
\* exception is logged and swallowed
WriteGap ==
  \E i \in 1..Len(background) :
    LET work == background[i]
    IN /\ work.pc = "write"
       /\ d1' = IF work.analytics = "write" THEN d1
                ELSE IF work.existing # 0
                  THEN UpdateGap(d1, work.existing,
                                 SampleSessions(work.sessions, work.session_id),
                                 work.bestScore)
                ELSE InsertGap(d1, work.message, NormalizedOf(work.message),
                               work.bestScore, work.session_id)
       /\ background' = [background EXCEPT ![i].pc = "done"]
       /\ UNCHANGED <<kv, now, leads, config, memo, last, hist, vkv, res>>

NextRequests == PostChat \/ LogChat \/ SelectGap \/ WriteGap

SpecRequests == Init /\ [][NextRequests]_vars

\* the answers of the collaborators of a streaming request: which of the
\* embedding, search and LLM calls fails, and the search results
StreamEnvs ==
  {[NominalEnv EXCEPT !.results = r] : r \in {NominalResults, LowResults, <<>>}}
  \cup {[NominalEnv EXCEPT !.provider = p] : p \in {"embed", "search", "llm"}}

\* a POST /chat of the session, while fewer than MaxRequests requests of
\* either route were made
ChatTurn ==
  /\ hist.turns + res.ops < MaxRequests
  /\ PostChat

\* a POST /chat/stream with the session id of the session and any request
\* body
PostChatStream ==
  /\ hist.turns + res.ops < MaxRequests
  /\ \E request \in Requests, env \in StreamEnvs :
       \E r \in {handleChatStreamRequest(kv, leads, SessionId, request, env)} :
          /\ kv' = r.kv
          /\ leads' = r.leads
          /\ background' = background \o r.background
          /\ res' = [op |-> "stream", ops |-> res.ops + 1, live |-> <<>>, out |-> r.out]
          /\ UNCHANGED <<now, config, memo, last, hist, d1, vkv>>

NextStream == ChatTurn \/ PostChatStream \/ LogChat \/ SelectGap \/ WriteGap

SpecStream == Init /\ [][NextStream]_vars

\* the ids, contents, embeddings and metadata of the upserts; metadata is
\* undefined or <<mapping>>
VectorIds == {<<"a">>, <<"b">>, <<"c">>}

Upserts ==
  {[content |-> <<"x">>, embedding |-> <<1, 0>>, metadata |-> Undefined],
   [content |-> <<"y">>, embedding |-> <<1, 1>>, metadata |-> <<[url |-> UrlA]>>],
   [content |-> <<"y">>, embedding |-> <<0, 2>>, metadata |-> <<[url |-> UrlB]>>],
   [content |-> <<"z">>, embedding |-> <<0, 0>>, metadata |-> Undefined],
   [content |-> <<"x">>, embedding |-> <<-1, 1>>, metadata |-> <<[url |-> UrlA]>>],
   [content |-> <<"z">>, embedding |-> <<1, 0, 0>>, metadata |-> Undefined]}

\* the query vectors
Queries == {<<1, 0>>, <<1, 2>>, <<0, 0>>, <<0, 1, 0>>}

\* CONFIG.rag.topK
TOP_K == 5

TopKs == {0, 1, 2, TOP_K}

MaxStoreOps == 3

\* vectorStore.upsert(id, content, embedding, metadata)
Upsert ==
  /\ res.ops < MaxStoreOps
  /\ \E id \in VectorIds, u \in Upserts :
       /\ vkv' = upsert(vkv, id, u.content, u.embedding, u.metadata)
       /\ res' = [op |-> "upsert", ops |-> res.ops + 1, id |-> id,
                  \* the ids upserted and not deleted since, with their latest upsert
                  live |-> [i \in DOMAIN res.live \cup {id} |->
                              IF i = id THEN u ELSE res.live[i]]]
  /\ UNCHANGED <<kv, now, leads, config, memo, last, hist, d1, background>>

\* vectorStore.delete(id)
Delete ==
  /\ res.ops < MaxStoreOps
  /\ \E id \in VectorIds :
       /\ vkv' = delete(vkv, id)
       /\ res' = [op |-> "delete", ops |-> res.ops + 1, id |-> id,
                  live |-> [i \in DOMAIN res.live \ {id} |-> res.live[i]]]
  /\ UNCHANGED <<kv, now, leads, config, memo, last, hist, d1, background>>

\* vectorStore.search(queryEmbedding, topK)
Search ==
  /\ \E queryEmbedding \in Queries, topK \in TopKs :
       res' = [op |-> "search", ops |-> res.ops, live |-> res.live,
               queryEmbedding |-> queryEmbedding, topK |-> topK,
               result |-> search(vkv, queryEmbedding, topK)]
  /\ UNCHANGED <<kv, now, leads, config, memo, last, hist, d1, background, vkv>>

NextVectors == Upsert \/ Delete \/ Search

SpecVectors == Init /\ [][NextVectors]_vars

\* The texts handed to the chunker: words of the given length, of letters
\* that change with the position, each followed by the separator, cut at the
\* given total length.
WordLengths == {0, 3, 24, 60, 249, 251, 499, 500, 520}

Separators ==
  { <<" ">>, <<".", " ">>, <<"!", " ", "\n">>, <<"?", "\n", "\t", " ">>, <<".">> }

TextLengths == {0, 1, 499, 500, 501, 549, 551, 760, 951, 1000, 1400}

TextOf(input) ==
  LET unit == input.word + Len(input.separator)
  IN [k \in 1..input.total |->
        IF ((k - 1) % unit) + 1 <= input.word THEN LowerSeq[(k % 26) + 1]
        ELSE input.separator[((k - 1) % unit) + 1 - input.word]]

ChunkInputs ==
  {[op |-> "input", ops |-> 0, live |-> <<>>,
    input |-> [word |-> w, separator |-> sep, total |-> n]] :
     w \in WordLengths, sep \in Separators, n \in TextLengths}

InitChunks ==
  /\ InitChat
  /\ vkv = <<>>
  /\ res \in ChunkInputs

\* chunkText(text) with the default chunk size and overlap
ChunkText ==
  /\ res.op = "input"
  /\ res' = [res EXCEPT !.op = "chunkText"] @@
            [chunks |-> chunkText(TextOf(res.input), CHUNK_SIZE, CHUNK_OVERLAP)]
  /\ UNCHANGED <<kv, now, leads, config, memo, last, hist, d1, background, vkv>>

NextChunks == ChunkText

SpecChunks == InitChunks /\ [][NextChunks]_vars

\* The documents sent to /ingest: two pages of one site, a page of another
\* site, no metadata, and an empty url
UrlPage1 ==
  <<"h", "t", "t", "p", "s", ":", "/", "/", "w", "w", "w", ".", "e", "x",
     "a", "m", "p", "l", "e", ".", "c", "o", "m", "/", "p", "a", "g", "e",
     "-", "1">>

UrlPage2 ==
  <<"h", "t", "t", "p", "s", ":", "/", "/", "w", "w", "w", ".", "e", "x",
     "a", "m", "p", "l", "e", ".", "c", "o", "m", "/", "p", "a", "g", "e",
     "-", "2">>

UrlOther ==
  <<"h", "t", "t", "p", "s", ":", "/", "/", "m", "m", "g", ".", "i", "o",
     "/", "a">>

Metadatas ==
  {Undefined, <<[url |-> UrlPage1]>>, <<[url |-> UrlPage2]>>,
   <<[url |-> UrlOther]>>, <<[url |-> <<>>]>>}

Alpha == <<"a", "l", "p", "h", "a">>

Beta == <<"b", "e", "t", "a">>

\* a text of two chunks
LongText == TextOf([word |-> 60, separator |-> <<".", " ">>, total |-> 760])

Contents ==
  {StringMessage(Alpha), StringMessage(Beta), StringMessage(LongText),
   StringMessage(Blank), NoMessage}

IngestBodies ==
  {NotJson, JsonNull} \cup {JsonDocument(c, m) : c \in Contents, m \in Metadatas}

Document(content, metadata) == [content |-> content, metadata |-> metadata]

BulkBodies ==
  { NotArray, DocumentsArray(<<>>),
    DocumentsArray(<<Document(StringMessage(Alpha), <<[url |-> UrlPage1]>>),
                     Document(StringMessage(Beta), <<[url |-> UrlPage2]>>)>>),
    DocumentsArray(<<Document(NoMessage, Undefined),
                     Document(StringMessage(Blank), <<[url |-> UrlOther]>>)>>),
    DocumentsArray(<<Document(StringMessage(LongText), <<[url |-> UrlOther]>>),
                     Document(StringMessage(Alpha), Undefined)>>) }

\* values of crypto.randomUUID()
Uuids ==
  { <<"3", "b", "2", "4", "1", "1", "0", "1", "-", "e", "2", "b", "b", "-",
       "4", "2", "5", "5", "-", "8", "c", "a", "f", "-", "4", "1", "3",
       "6", "c", "5", "6", "6", "a", "9", "6", "2">>,
    <<"9", "f", "1", "c", "2", "d", "3", "e", "-", "4", "a", "5", "b", "-",
       "4", "c", "6", "d", "-", "8", "e", "7", "f", "-", "0", "a", "1",
       "b", "2", "c", "3", "d", "4", "e", "5", "f">>,
    <<"c", "0", "f", "f", "e", "e", "0", "0", "-", "1", "2", "3", "4", "-",
       "4", "a", "b", "c", "-", "9", "d", "e", "f", "-", "0", "1", "2",
       "3", "4", "5", "6", "7", "8", "9", "a", "b">> }

IngestEnvs ==
  { [embeddings |-> "down", embedding |-> <<>>],
    [embeddings |-> "up", embedding |-> <<1, 0>>] }

MaxIngests == 2

\* a value of randomUUID is one no id of the store was made of
Fresh(uuid) == VECTORS_PREFIX \o generateChunkId(uuid, 0) \notin DOMAIN vkv

\* POST /ingest
Ingest ==
  /\ res.ops < MaxIngests
  /\ \E body \in IngestBodies, uuid \in Uuids, env \in IngestEnvs :
       /\ Fresh(uuid)
       /\ \E r \in {handleIngest(vkv, body, uuid, env)} :
             /\ vkv' = r.vkv
             /\ res' = [op |-> "ingest", ops |-> res.ops + 1, live |-> <<>>,
                        documents |-> IF body.json /\ ~body.isNull
                                        THEN <<Document(body.content, body.metadata)>>
                                        ELSE <<>>,
                        out |-> r.out]
  /\ UNCHANGED <<kv, now, leads, config, memo, last, hist, d1, background>>

\* POST /ingest/bulk
BulkIngest ==
  /\ res.ops < MaxIngests
  /\ \E body \in BulkBodies, uuids \in [1..2 -> Uuids], env \in IngestEnvs :
       /\ Fresh(uuids[1]) /\ Fresh(uuids[2]) /\ uuids[1] # uuids[2]
       /\ \E r \in {handleBulkIngest(vkv, body, uuids, env)} :
             /\ vkv' = r.vkv
             /\ res' = [op |-> "bulk", ops |-> res.ops + 1, live |-> <<>>,
                        documents |-> IF body.isArray THEN body.documents ELSE <<>>,
                        out |-> r.out]
  /\ UNCHANGED <<kv, now, leads, config, memo, last, hist, d1, background>>

NextIngest == Ingest \/ BulkIngest

SpecIngest == Init /\ [][NextIngest]_vars

\* The loop of chunkText followed iteration by iteration, for chunk sizes and
\* overlaps other than the configured ones
ChunkSizes == {1, 4, 10}

Overlaps == {0, 1, 3, 6, 9}

LoopWordLengths == {0, 3, 5, 12}

LoopTextLengths == {0, 1, 9, 10, 11, 25, 37, 70}

\* chunkSize > 0 and 0 <= overlap < chunkSize
Parameters ==
  {p \in [chunkSize : ChunkSizes, overlap : Overlaps] : p.overlap < p.chunkSize}

LoopInputs ==
  {[op |-> "input", ops |-> 0, live |-> <<>>,
    input |-> [word |-> w, separator |-> sep, total |-> n],
    chunkSize |-> p.chunkSize, overlap |-> p.overlap] :
     w \in LoopWordLengths, sep \in {<<" ">>, <<".", " ">>, <<"?", "\n", " ">>},
     n \in LoopTextLengths, p \in Parameters}

InitChunkLoop ==
  /\ InitChat
  /\ vkv = <<>>
  /\ res \in LoopInputs

MaxIterations == 6

\* chunkText up to the loop: the text cleaned, returned as one chunk when it
\* is no longer than the chunk size
EnterChunkText ==
  /\ res.op = "input"
  /\ LET cleaned == Trim(NormalizeWhitespace(TextOf(res.input)))
     IN res' = [op |-> IF Len(cleaned) <= res.chunkSize THEN "returned" ELSE "loop",
                ops |-> 0, live |-> <<>>, cleaned |-> cleaned,
                chunkSize |-> res.chunkSize, overlap |-> res.overlap,
                start |-> 0, iterations |-> 0]
  /\ UNCHANGED <<kv, now, leads, config, memo, last, hist, d1, background, vkv>>

\* one test of the while condition and, when it holds, one iteration
Iterate ==
  /\ res.op = "loop"
  /\ res.iterations < MaxIterations
  /\ \E start \in {NextStart(ChunkEnd(res.cleaned, res.chunkSize, res.start), res.overlap)} :
       res' = IF ~(res.start < Len(res.cleaned)) THEN [res EXCEPT !.op = "returned"]
              ELSE IF start >= Len(res.cleaned) - res.overlap
                THEN [res EXCEPT !.op = "returned", !.iterations = @ + 1]
              ELSE [res EXCEPT !.start = start, !.iterations = @ + 1]
  /\ UNCHANGED <<kv, now, leads, config, memo, last, hist, d1, background, vkv>>

NextChunkLoop == EnterChunkText \/ Iterate

SpecChunkLoop == InitChunkLoop /\ [][NextChunkLoop]_vars

\* isKnowledgeGap applied to a message, the results of its search and the
\* lead capture flag
ClassifiedMessages ==
  {GapMessages[k] : k \in 1..Len(GapMessages)} \cup {Hello, WhatServices, CcBob, SamRoy}

ClassifiedResults ==
  { <<>>, LowResults, NominalResults,
    << [score |-> GapScore, url |-> UrlA] >>,
    << [score |-> GapScore + 1, url |-> UrlA] >>,
    << [score |-> 120, url |-> UrlA], [score |-> GapScore, url |-> UrlB] >>,
    << [score |-> 120, url |-> UrlA], [score |-> 820, url |-> UrlB] >> }

Classify ==
  /\ \E message \in ClassifiedMessages, results \in ClassifiedResults,
        leadCaptureInProgress \in BOOLEAN :
       res' = [op |-> "classify", ops |-> res.ops, live |-> res.live,
               message |-> message, results |-> results,
               leadCaptureInProgress |-> leadCaptureInProgress,
               gap |-> isKnowledgeGap(message, results, leadCaptureInProgress)]
  /\ UNCHANGED <<kv, now, leads, config, memo, last, hist, d1, background, vkv>>

NextClassify == Classify

SpecClassify == Init /\ [][NextClassify]_vars

\* The knowledge-gap table under recordings and resolutions, each run from
\* beginning to end
GapQuestions == {WhatPrices, WhatPricesShouted, DoYouOffer}

\* the session ids of the recordings, in the order in which they first appear
Sessions == <<"s1", "s2", "s3", "s4", "s5", "s6">>

BestScores == {120, GapScore}

Done == <<"d", "o", "n", "e">>

ResolveBodies ==
  {NotJson, JsonNull, [json |-> TRUE, isNull |-> FALSE, note |-> <<Done>>]}

MaxRecordings == 4

MaxResolved == 1

NoRecordings == [op |-> "none", ops |-> 0, live |-> <<>>, sessions |-> 0]

\* the recordings the table counts, over the rows 1..n
RECURSIVE Occurrences(_, _)
Occurrences(db, n) ==
  IF n = 0 THEN 0 ELSE Occurrences(db, n - 1) + db.knowledge_gaps[n].occurrence_count

ResolvedRows(db) ==
  {k \in 1..Len(db.knowledge_gaps) : db.knowledge_gaps[k].status = "resolved"}

InitGaps ==
  /\ InitChat
  /\ ~config.leadsEnabled
  /\ vkv = <<>>
  /\ res = NoRecordings

\* what the recordings of a normalized question since its last resolution
\* amount to: how many, the highest score, the distinct sessions in order
Recorded(live, normalized, entry) ==
  IF normalized \in DOMAIN live
    THEN [count |-> live[normalized].count + 1,
          best |-> Max({live[normalized].best, entry.bestScore}),
          sessions |-> IF \E k \in 1..Len(live[normalized].sessions) :
                            live[normalized].sessions[k] = entry.sessionId
                         THEN live[normalized].sessions
                         ELSE Append(live[normalized].sessions, entry.sessionId)]
    ELSE [count |-> 1, best |-> entry.bestScore, sessions |-> <<entry.sessionId>>]

\* logKnowledgeGap of one of the questions for one of the sessions, while
\* the table counts fewer recordings than the bound
Record(questions, sessions, bound) ==
  /\ Occurrences(d1, Len(d1.knowledge_gaps)) < bound
  /\ \E question \in questions, bestScore \in BestScores,
        s \in sessions \cap (1..Len(Sessions)),
        analytics \in {"up", "select", "write"} :
       LET entry == [question |-> question, bestScore |-> bestScore,
                     sessionId |-> Sessions[s]]
           normalized == NormalizedOf(question)
       IN /\ d1' = logKnowledgeGap(d1, entry, analytics)
          /\ res' = IF analytics # "up" THEN [res EXCEPT !.op = "record"]
                    ELSE [op |-> "record", ops |-> 0,
                          sessions |-> Max({res.sessions, s}),
                          live |-> [n \in DOMAIN res.live \cup {normalized} |->
                                      IF n = normalized
                                        THEN Recorded(res.live, normalized, entry)
                                        ELSE res.live[n]]]
  /\ UNCHANGED <<kv, now, leads, config, memo, last, hist, background, vkv>>

\* a recording of any question by the first session, the latest one or a
\* new one
RecordGap == Record(GapQuestions, {1, res.sessions, res.sessions + 1}, MaxRecordings)

\* PATCH /analytics/gaps/:id/resolve
ResolveGap ==
  /\ Cardinality(ResolvedRows(d1)) < MaxResolved
  /\ \E gapId \in 1..(Len(d1.knowledge_gaps) + 1), body \in ResolveBodies :
       \E r \in {handleResolveGap(d1, body, gapId)} :
       LET \* the questions whose active row the step resolves
           resolved == {d1.knowledge_gaps[k].question_normalized :
                          k \in {j \in 1..Len(d1.knowledge_gaps) :
                                   /\ d1.knowledge_gaps[j].status = "active"
                                   /\ r.d1.knowledge_gaps[j].status = "resolved"}}
       IN /\ d1' = r.d1
          /\ res' = [op |-> "resolve", ops |-> 0, sessions |-> res.sessions,
                     live |-> [n \in DOMAIN res.live \ resolved |-> res.live[n]]]
  /\ UNCHANGED <<kv, now, leads, config, memo, last, hist, background, vkv>>

NextGaps == RecordGap \/ ResolveGap

SpecGaps == InitGaps /\ [][NextGaps]_vars

\* Recordings alone, by any session seen before or by a new one
MaxRepeatedRecordings == 7

RecordRepeated == Record(GapQuestions, 1..(res.sessions + 1), MaxRepeatedRecordings)

NextRecordings == RecordRepeated

SpecRecordings == InitGaps /\ [][NextRecordings]_vars

\* The lead-save path alone: processLeadCaptureWithInfo with the lead
\* information of a message, a validate-email function that accepts,
\* refuses, is unreachable or answers an error status, and a lead store
Validators == {"valid", "invalid", "down", "error"}

Stores == {"up", "down", "error"}

InitLeadSave ==
  /\ InitChat
  /\ vkv = <<>>
  /\ res = NoOperation

ProcessLeadCapture ==
  /\ \E k \in 1..Len(Bodies), validator \in Validators, store \in Stores :
       \E out \in {processLeadCaptureWithInfo(leads, config.leadsEnabled, memo.leadInfo[k],
                                                validator, store)} :
          /\ leads' = out.table
          /\ res' = [op |-> "processLeadCaptureWithInfo", ops |-> 0, live |-> <<>>,
                     leadInfo |-> memo.leadInfo[k], validator |-> validator,
                     result |-> out.result, calls |-> out.calls, insert |-> out.insert]
  /\ UNCHANGED <<kv, now, config, memo, last, hist, d1, background, vkv>>

NextLeadSave == ProcessLeadCapture

SpecLeadSave == InitLeadSave /\ [][NextLeadSave]_vars

\* Upserts of two ingestion requests running at the same time: each request
\* upserts its ids one after the other, and each upsert is three KV
\* operations (put the record, get the index, put the index) between which
\* the other request may run
ConcurrentIds == << << <<"a">>, <<"b">> >>, << <<"c">> >> >>

UpsertContent == <<"x">>

UpsertEmbedding == <<1, 0>>

InitUpserts ==
  /\ InitChat
  /\ vkv = <<>>
  /\ res = [op |-> "none", ops |-> 0, live |-> <<>>,
            procs |-> [p \in 1..Len(ConcurrentIds) |-> [n |-> 1, pc |-> "put", index |-> <<>>]]]

\* await this.kv.put(`${VECTORS_PREFIX}${id}`, JSON.stringify(vector))
PutRecord ==
  /\ \E p \in 1..Len(ConcurrentIds) :
       LET id == ConcurrentIds[p][res.procs[p].n]
           vector == [id |-> id, content |-> UpsertContent, embedding |-> UpsertEmbedding,
                      metadata |-> Undefined]
       IN /\ res.procs[p].pc = "put"
          /\ vkv' = VPut(vkv, VECTORS_PREFIX \o id, StringifyVector(vector))
          /\ res' = [res EXCEPT !.op = "put", !.procs[p].pc = "read"]
  /\ UNCHANGED <<kv, now, leads, config, memo, last, hist, d1, background>>

\* const index = await this.getIndex()
ReadIndex ==
  /\ \E p \in 1..Len(ConcurrentIds) :
       /\ res.procs[p].pc = "read"
       /\ res' = [res EXCEPT !.op = "read", !.procs[p].pc = "write",
                              !.procs[p].index = getIndex(vkv)]
  /\ UNCHANGED <<kv, now, leads, config, memo, last, hist, d1, background, vkv>>

\* if (!index.includes(id)) { index.push(id); await this.kv.put(VECTORS_KEY, ...) }
\* and the request goes on to its next id
WriteIndex ==
  /\ \E p \in 1..Len(ConcurrentIds) :
       LET proc == res.procs[p]
           id == ConcurrentIds[p][proc.n]
       IN /\ proc.pc = "write"
          /\ vkv' = IF ~IndexIncludes(proc.index, id)
                      THEN VPut(vkv, VECTORS_KEY, StringifyIndex(Append(proc.index, id)))
                      ELSE vkv
          /\ res' = [res EXCEPT !.op = "write",
                                 !.procs[p] = IF proc.n < Len(ConcurrentIds[p])
                                                THEN [n |-> proc.n + 1, pc |-> "put", index |-> <<>>]
                                                ELSE [proc EXCEPT !.pc = "done"]]
  /\ UNCHANGED <<kv, now, leads, config, memo, last, hist, d1, background>>

NextUpserts == PutRecord \/ ReadIndex \/ WriteIndex

SpecUpserts == InitUpserts /\ [][NextUpserts]_vars

\* Two sessions ask the same new question at the same time: each recording
\* is the SELECT of logKnowledgeGap, then its INSERT or UPDATE, and the other
\* recording may run in between
ConcurrentSessions == {"s1", "s2"}

InitRecordings ==
  /\ InitChat
  /\ vkv = <<>>
  /\ res = NoOperation

\* a turn of a session that is a knowledge gap reaches logKnowledgeGap
StartRecording ==
  /\ \E sessionId \in ConcurrentSessions, question \in {WhatPrices, WhatPricesShouted},
        bestScore \in BestScores :
       /\ \A i \in 1..Len(background) : background[i].session_id # sessionId
       /\ background' =
            Append(background,
                   [BackgroundWork(sessionId, question, Reply, <<>>, FALSE, "up")
                      EXCEPT !.pc = "select", !.bestScore = bestScore])
  /\ UNCHANGED <<kv, now, leads, config, memo, last, hist, d1, vkv, res>>

NextConcurrentRecordings == StartRecording \/ SelectGap \/ WriteGap

SpecConcurrentRecordings == InitRecordings /\ [][NextConcurrentRecordings]_vars

InitEmails ==
  /\ InitWith(ChatTables @@ [emails |-> EmailTable])
  /\ vkv = <<>>
  /\ res \in {[op |-> "input", ops |-> 0, live |-> <<>>, input |-> input] :
                input \in EmailInputs}

\* validateEmail(email), read from the table
ValidateEmail ==
  /\ res.op = "input"
  /\ res' = [res EXCEPT !.op = "validateEmail"] @@
            [result |-> (CHOOSE row \in memo.emails : row.input = res.input).result]
  /\ UNCHANGED <<kv, now, leads, config, memo, last, hist, d1, background, vkv>>

NextEmails == ValidateEmail

SpecEmails == InitEmails /\ [][NextEmails]_vars

(***************************************************************************)
(* Properties of the chat turns                                            *)
(***************************************************************************)
\* the last request got as far as Step 6, where the state is selected
ReachedLeadStep ==
  last.out.status = 200 \/ (last.out.status = 500 /\ last.env.provider = "llm")

LastName == OrElse(last.out.extracted.name, last.out.accumulated.name)

LastEmail == OrElse(last.out.extracted.email, last.out.accumulated.email)

LeadStates == {"NEED_NAME", "NAME_JUST_PROVIDED", "INVALID_EMAIL", "NEED_EMAIL", "COMPLETE"}

\* C1: with lead capture enabled, every turn selects exactly one of the five
\* states, as a function of the combined name and email and the local email
\* validity: no name -> NEED_NAME; name first extracted this turn and no email
\* -> NAME_JUST_PROVIDED; name and an email that fails validation ->
\* INVALID_EMAIL; name known earlier and no email -> NEED_EMAIL; name and a
\* valid email -> COMPLETE.
C1_StateSelection ==
  (config.leadsEnabled /\ ReachedLeadStep) =>
    LET justProvided == last.out.extracted.name # Absent /\ last.out.accumulated.name = Absent
        valid == validateEmail(LastEmail).valid
    IN /\ last.out.state \in LeadStates
       /\ LastName = Absent => last.out.state = "NEED_NAME"
       /\ (justProvided /\ LastEmail = Absent) => last.out.state = "NAME_JUST_PROVIDED"
       /\ (LastName # Absent /\ LastEmail # Absent /\ ~valid)
            => last.out.state = "INVALID_EMAIL"
       /\ (LastName # Absent /\ ~justProvided /\ LastEmail = Absent)
            => last.out.state = "NEED_EMAIL"
       /\ (LastName # Absent /\ LastEmail # Absent /\ valid) => last.out.state = "COMPLETE"

\* a session whose turns went through NEED_NAME, NAME_JUST_PROVIDED and
\* INVALID_EMAIL
C1_Witness ==
  /\ config.leadsEnabled
  /\ hist.states = <<"NEED_NAME", "NAME_JUST_PROVIDED", "INVALID_EMAIL">>

\* C3 (as stated): once a turn was COMPLETE, every later turn of the session,
\* the record alive and the memory operations succeeding, is COMPLETE too.
C3_CompleteIsAbsorbing ==
  (config.leadsEnabled /\ hist.afterComplete /\ ReachedLeadStep)
    => last.out.state = "COMPLETE"

\* C4 (as stated): an insert is attempted only in a turn whose state is COMPLETE.
C4_InsertOnlyWhenComplete ==
  last.out.insert # Null => last.out.state = "COMPLETE"

StoreRefused ==
  /\ last.out.insert # Null
  /\ \/ last.env.store # "up"
     \/ last.out.leadResult.validationMessage = "This email has already been registered"

JordanLee == <<"J", "o", "r", "d", "a", "n", " ", "L", "e", "e">>

ScenarioStates == <<"NEED_NAME", "NAME_JUST_PROVIDED", "NEED_EMAIL", "COMPLETE">>

\* C2: a new session that receives "Hello", "I'm Jordan Lee", "What services
\* do you offer?" and "jordan@example.com" in order (every turn answered, the
\* record alive, the validator not rejecting) goes through NEED_NAME,
\* NAME_JUST_PROVIDED, NEED_EMAIL, COMPLETE; the first three turns attempt no
\* insert and the fourth attempts one with name "Jordan Lee" and email
\* "jordan@example.com".
C2_FourMessages ==
  (config.leadsEnabled /\ hist.nominal) =>
    /\ hist.states = SubSeq(ScenarioStates, 1, hist.turns)
    /\ \A k \in 1..hist.turns : k < 4 => hist.inserts[k] = Null
    /\ hist.turns = 4 =>
         /\ hist.inserts[4] # Null
         /\ hist.inserts[4].name = JordanLee
         /\ hist.inserts[4].email = JordanEmail

\* the four turns done, the fourth with its insert
C2_Witness ==
  /\ config.leadsEnabled
  /\ hist.nominal
  /\ hist.turns = 4
  /\ hist.states[4] = "COMPLETE"
  /\ hist.inserts[4] # Null

(***************************************************************************)
(* Properties of the conversation memory                                   *)
(***************************************************************************)
Stored == getConversation(kv, now, SessionId, TRUE)

\* C6 (as stated): after any sequence of appends the stored window has at
\* most 10 entries and is exactly the last min(n, 10) appended messages, in
\* append order.
C6_WindowIsLastTen ==
  Stored # Null =>
    /\ Len(Stored.messages) <= 10
    /\ Stored.messages = LastN(hist.appended, 10)

\* C7 (as stated): each lead field of a live record holds the most recent
\* non-empty value passed in a delta, so a field once non-empty is never
\* empty again.
C7_LeadFieldsMonotonic ==
  Stored # Null =>
    \A f \in {"name", "email", "phone"} : Stored.leadInfo[f] = hist.lead[f]

\* C8 (as stated): the stored flag is the last boolean passed to an append;
\* an append that passes none leaves it unchanged.
C8_FlagKeptUnlessPassed ==
  Stored # Null => Stored.leadCaptureInProgress = hist.flag

\* C9: every write sets the expiry to 24 hours after that write, and a read
\* at any time later than that returns no record, so the next append starts
\* again from an empty record.
C9_ExpiryFromWrite ==
  ConversationKey(SessionId) \in DOMAIN kv =>
    /\ kv[ConversationKey(SessionId)].expiration = hist.lastWriteAt + CONVERSATION_TTL
    /\ now >= hist.lastWriteAt + CONVERSATION_TTL => Stored = Null
    /\ (hist.restarted /\ Stored # Null) =>
         /\ Stored.messages = <<MessageNo(hist.appends)>>
         /\ \E delta \in Deltas : Stored.leadInfo = delta

\* a record written, left idle for a day and read as absent
C9_Witness ==
  /\ ConversationKey(SessionId) \in DOMAIN kv
  /\ hist.appends > 1
  /\ now >= hist.lastWriteAt + CONVERSATION_TTL
  /\ Stored = Null

HasString(request) ==
  request.json /\ ~request.isNull /\ request.message.type = "string"

\* C11 (as stated): a request whose body is not JSON, has no string message,
\* has a message empty after trimming or longer than 2000 characters after
\* trimming is answered 400 with the error text of its case, with no call to
\* the memory, the embedding, the search, the LLM or the lead store and the
\* store and the lead table as they were; a message of exactly 2000
\* characters after trimming gets past the validation.
C11_InvalidRequestRejected ==
  [][hist'.turns = hist.turns + 1 =>
       LET request == last'.request
           out == last'.out
           Refused(errors) ==
             /\ out.status = 400 /\ out.error \in errors /\ out.calls = <<>>
             /\ kv' = kv /\ leads' = leads
           trimmed == TrimOf(request.message.value)
       IN /\ ~request.json => Refused({"Invalid JSON in request body"})
          /\ (request.json /\ ~HasString(request)) => Refused({"Message is required"})
          /\ (HasString(request) /\ request.message.value = <<>>)
               => Refused({"Message is required", "Message cannot be empty"})
          /\ (HasString(request) /\ request.message.value # <<>> /\ trimmed = <<>>)
               => Refused({"Message cannot be empty"})
          /\ (HasString(request) /\ Len(trimmed) > MaxMessageLength)
               => Refused({"Message too long (max 2000 characters)"})
          /\ (HasString(request) /\ Len(trimmed) = MaxMessageLength)
               => out.status # 400 /\ out.calls # <<>>]_vars

\* the step is a chat turn whose message passed the validation
ValidTurn == hist'.turns = hist.turns + 1 /\ last'.out.status # 400

\* how many times the collaborator was called in the trace
Times(calls, name) == Cardinality({k \in 1..Len(calls) : calls[k] = name})

\* C12: when the embedding call, the vector search or the LLM call of a turn
\* fails, the turn answers the generic processing error with status 500, the
\* failed call was made once and nothing was called after it, and the store
\* of conversations and the lead table are exactly as before the turn.
C12_ProviderFailureLeavesNoTrace ==
  [][(ValidTurn /\ last'.env.provider # "ok") =>
       LET out == last'.out
       IN /\ out.status = 500 /\ out.error = ProcessingError
          /\ out.response = Absent
          /\ Times(out.calls, last'.env.provider) = 1
          /\ out.calls[Len(out.calls)] = last'.env.provider
          /\ \A k \in 1..Len(out.calls) : out.calls[k] \notin {"kv.put", "validate-email", "capture-lead"}
          /\ kv' = kv /\ leads' = leads]_vars

\* the LLM call failed in a turn whose message carried an email, and the
\* record of the session, alive, holds no email
C12_Witness ==
  /\ last.out.status = 500 /\ last.env.provider = "llm"
  /\ last.out.extracted.email # Absent
  /\ Alive
  /\ getAccumulatedLeadInfo(getConversation(kv, now, SessionId, TRUE)).email = Absent

\* C13: a failure of the conversation memory never fails the turn.  When the
\* read at the start fails the turn answers what the first message of a new
\* session would be answered (no history, no accumulated lead info, flag
\* false); when a read or a write of an append fails the turn still answers
\* the reply with status 200.
C13_MemoryFailureTolerated ==
  [][(ValidTurn /\ ~MemoryOk(last'.env)) =>
       LET out == last'.out
           fresh == handleChat(<<>>, now, leads, config.leadsEnabled, SessionId,
                               out.body, NominalEnv).out
       IN /\ out.status = 200 /\ out.response = last'.env.reply
          /\ ~last'.env.readOk =>
               /\ out.accumulated = EmptyLeadInfo /\ out.flagBefore = FALSE
               /\ out = fresh]_vars

\* the read at the start failed in a turn sent to a live record that held a
\* complete lead, and the turn was answered
C13_Witness ==
  /\ config.leadsEnabled
  /\ Len(hist.states) = 2 /\ hist.states[1] = "COMPLETE"
  /\ ~last.env.readOk /\ last.alive
  /\ last.out.status = 200 /\ last.out.state = "NEED_NAME"

\* C14: the response of a turn (status, reply, session, sources, leadCaptured)
\* is the one the handler computes with the analytics database answering,
\* whether its statements succeed or throw; it is returned while the
\* background work of the turn has not run; and no step of the background
\* work, succeeding or failing, changes the response, the conversation
\* store or the lead table.
C14_AnalyticsNeverReachResponse ==
  [][/\ hist'.turns = hist.turns + 1 =>
          /\ last'.out = handleChatRequest(kv, now, leads, config.leadsEnabled, SessionId,
                                           last'.request,
                                           [last'.env EXCEPT !.analytics = "up"]).out
          /\ last'.out.status = 200 =>
               /\ Len(background') = Len(background) + 1
               /\ background'[Len(background')].pc = "logChat"
               /\ last'.out.response = last'.env.reply
               /\ last'.out.sources = Sources(last'.env.results)
     /\ (hist'.turns = hist.turns /\ background' # background) =>
          /\ last' = last /\ kv' = kv /\ leads' = leads
          /\ Len(background') = Len(background)]_vars

\* a turn was answered 200 with its sources, the INSERT of its chat log
\* threw, and the background work of the turn has ended
C14_Witness ==
  /\ last.out.status = 200 /\ last.out.sources = <<UrlA>>
  /\ last.env.analytics = "logChat"
  /\ Len(background) = 1 /\ background[1].pc = "done"
  /\ d1.chat_logs = <<>>

(***************************************************************************)
(* Properties of the vector store                                          *)
(***************************************************************************)
\* the ids that have a record in the store, and the record of an id
StoredIds == {id \in VectorIds : VECTORS_PREFIX \o id \in DOMAIN vkv}

StoredVector(id) == ParseVector(vkv[VECTORS_PREFIX \o id])

\* the entry a search makes of the record of an id
Scored(id, queryEmbedding) ==
  [content |-> StoredVector(id).content, metadata |-> StoredVector(id).metadata,
   score |-> cosineSimilarity(queryEmbedding, StoredVector(id).embedding).score]

\* C15: the results of a search that returns are in non-increasing order of
\* score, are at most topK and at most the stored vectors, and are the topK
\* highest-scoring stored vectors: they are the entries of min(topK, count)
\* distinct stored vectors, and no other stored vector scores more than the
\* last of them.
C15_TopKByScore ==
  (res.op = "search" /\ res.result.ok) =>
    LET results == res.result.results
        n == Len(results)
    IN /\ \A k \in 1..(n - 1) : ScoreLeq(results[k + 1].score, results[k].score)
       /\ n <= res.topK /\ n <= Cardinality(StoredIds)
       /\ n = Min({res.topK, Cardinality(StoredIds)})
       /\ \E f \in [1..n -> StoredIds] :
            /\ \A j, k \in 1..n : f[j] = f[k] => j = k
            /\ \A k \in 1..n : results[k] = Scored(f[k], res.queryEmbedding)
            /\ \A id \in StoredIds \ {f[k] : k \in 1..n} :
                 n > 0 => ScoreLeq(Scored(id, res.queryEmbedding).score, results[n].score)

\* a search with topK 2 over three stored vectors returned two results, the
\* first scoring more than the second and not the first vector of the index
C15_Witness ==
  /\ res.op = "search" /\ res.result.ok /\ res.topK = 2
  /\ Cardinality(StoredIds) = 3
  /\ Len(res.result.results) = 2
  /\ ~ScoreLeq(res.result.results[1].score, res.result.results[2].score)
  /\ res.result.results[1] # Scored(getIndex(vkv)[1], res.queryEmbedding)

\* C16: after any sequence of upserts and deletes the index lists each live
\* id once and no other id, there is one record per live id and none for
\* another id, and the record of a live id holds the content, the embedding
\* and the metadata of the most recent upsert of that id.
C16_UpsertIdempotentById ==
  LET index == getIndex(vkv)
  IN /\ \A j, k \in 1..Len(index) : index[j] = index[k] => j = k
     /\ {index[k] : k \in 1..Len(index)} = DOMAIN res.live
     /\ DOMAIN vkv \ {VECTORS_KEY} = {VECTORS_PREFIX \o id : id \in DOMAIN res.live}
     /\ \A id \in DOMAIN res.live :
          StoredVector(id) = [id |-> id, content |-> res.live[id].content,
                              embedding |-> res.live[id].embedding,
                              metadata |-> res.live[id].metadata]

\* the first of two indexed ids was upserted again, after the second
C16_Witness ==
  /\ res.op = "upsert" /\ res.ops = 3
  /\ Len(getIndex(vkv)) = 2 /\ getIndex(vkv)[1] = res.id

\* C17 (as stated): in every reachable state all stored embeddings have the
\* same length.
C17_OneDimensionality ==
  \A id1, id2 \in StoredIds :
    Len(StoredVector(id1).embedding) = Len(StoredVector(id2).embedding)

\* the answers of the collaborators of a chat turn whose vector search is res
SearchEnv(result) ==
  [NominalEnv EXCEPT !.provider = IF result.ok THEN "ok" ELSE "search"]

\* C18: a search whose query differs in length from the embedding of a stored
\* vector fails with the dimension-mismatch error and no result list, the
\* store is as before, and the chat turn that issues it is answered 500 with
\* the conversation store and the lead table as before.
C18_MismatchFailsWholeQuery ==
  [][(res'.op = "search" /\ res' # res
      /\ \E id \in StoredIds : Len(StoredVector(id).embedding) # Len(res'.queryEmbedding)) =>
       LET turn == handleChat(kv, now, leads, config.leadsEnabled, SessionId, WhatServices,
                              SearchEnv(res'.result))
       IN /\ ~res'.result.ok
          /\ res'.result.error = "Vectors must have the same length"
          /\ DOMAIN res'.result = {"ok", "error"}
          /\ vkv' = vkv
          /\ turn.out.status = 500 /\ turn.out.error = ProcessingError
          /\ turn.kv = kv /\ turn.leads = leads]_vars

\* a search failed although the first vector of the index has the length of
\* the query and a later one has not
C18_Witness ==
  /\ res.op = "search" /\ ~res.result.ok
  /\ Len(getIndex(vkv)) >= 2
  /\ Len(StoredVector(getIndex(vkv)[1]).embedding) = Len(res.queryEmbedding)

(***************************************************************************)
(* Properties of the chunker                                               *)
(***************************************************************************)
\* the chunks in index order, each without the part the earlier ones covered
RECURSIVE Rebuilt(_, _)
Rebuilt(chunks, n) ==
  IF n = 0 THEN <<>>
  ELSE LET covered == IF n = 1 THEN 0 ELSE chunks[n - 1].to
           c == chunks[n]
       IN Rebuilt(chunks, n - 1) \o SubSeq(c.content, covered - c.from + 2, Len(c.content))

\* C20: the chunks of a text, in index order, are pieces of the
\* whitespace-normalized text that begin at its first character, end at its
\* last, each beginning no later than right after the end of the one before:
\* with the overlaps removed they give the normalized text back, no
\* character dropped.
C20_ChunksCoverText ==
  res.op = "chunkText" =>
    LET cleaned == Trim(NormalizeWhitespace(TextOf(res.input)))
        chunks == res.chunks
        n == Len(chunks)
    IN /\ n >= 1
       /\ \A k \in 1..n : chunks[k].index = k - 1
       /\ \A k \in 1..n : chunks[k].content = SubSeq(cleaned, chunks[k].from, chunks[k].to)
       /\ chunks[1].from = 1 /\ chunks[n].to = Len(cleaned)
       /\ \A k \in 1..(n - 1) :
            /\ chunks[k + 1].from <= chunks[k].to + 1
            /\ chunks[k + 1].to >= chunks[k].to
       /\ Rebuilt(chunks, n) = cleaned

\* a text of three chunks or more, the first cut at a sentence end and the
\* second beginning after a space that was trimmed
C20_Witness ==
  /\ res.op = "chunkText" /\ Len(res.chunks) >= 3
  /\ res.chunks[1].to # CHUNK_SIZE
  /\ res.chunks[2].from # res.chunks[1].to - CHUNK_OVERLAP + 1

(***************************************************************************)
(* Properties of the ingestion                                             *)
(***************************************************************************)
\* the urls of the documents of a request
IngestedUrls(documents) ==
  {documents[k].metadata[1].url :
     k \in {j \in 1..Len(documents) : documents[j].metadata # Undefined}}

VectorKeys(store) == DOMAIN store \ {VECTORS_KEY}

\* C19: an ingestion leaves every stored chunk of a document of another url
\* as it was: the ids it writes are ids of its own urls only.
C19_NoOverwriteAcrossDocuments ==
  [][res'.op \in {"ingest", "bulk"} =>
       \A key \in VectorKeys(vkv) :
          LET vector == ParseVector(vkv[key])
          IN (/\ vector.metadata # Undefined
              /\ Len(vector.metadata[1].url) > 0
              /\ vector.metadata[1].url \notin IngestedUrls(res'.documents))
             => (key \in DOMAIN vkv' /\ vkv'[key] = vkv[key])]_vars

\* the two pages of one site have one source id
C19_Collision ==
  /\ res.op = "ingest" /\ res.out.status = 200
  /\ res.out.sourceId = UrlSourceId(UrlPage1)
  /\ res.out.sourceId = UrlSourceId(UrlPage2)

\* C21: with the default parameters every chunk is at most the chunk size
\* plus the look-ahead long, and every chunk but the last is at least half
\* the chunk size long.
C21_ChunkLengthBounds ==
  res.op = "chunkText" =>
    \A k \in 1..Len(res.chunks) :
       /\ Len(res.chunks[k].content) <= CHUNK_SIZE + LookAhead
       /\ k < Len(res.chunks) => 2 * Len(res.chunks[k].content) >= CHUNK_SIZE

\* three chunks or more: one cut at a sentence end right after the window,
\* so longer than the chunk size, and a last one under half the chunk size
C21_Witness ==
  /\ res.op = "chunkText" /\ Len(res.chunks) >= 3
  /\ \E k \in 1..Len(res.chunks) : Len(res.chunks[k].content) > CHUNK_SIZE
  /\ 2 * Len(res.chunks[Len(res.chunks)].content) < CHUNK_SIZE

\* C22: no chunk has empty content, whatever the text, and the indices of
\* the chunks are 0, 1, ..., n-1 in order.
C22_NoEmptyChunk ==
  res.op = "chunkText" =>
    \A k \in 1..Len(res.chunks) :
       /\ Len(res.chunks[k].content) > 0
       /\ res.chunks[k].index = k - 1

\* C30: with a chunk size above 0 and an overlap from 0 to under the chunk
\* size, every iteration of the loop of chunkText that is followed by
\* another one has moved the window start strictly forward (so the loop
\* ends).
C30_StartMovesForward ==
  [][(res.op = "loop" /\ res'.op = "loop") => res'.start > res.start]_vars

\* an iteration that leaves the window start where it was: the next one is
\* the same iteration again
C30_Stuck ==
  /\ res.op = "loop" /\ res.iterations < MaxIterations
  /\ res.start < Len(res.cleaned)
  /\ NextStart(ChunkEnd(res.cleaned, res.chunkSize, res.start), res.overlap) = res.start

(***************************************************************************)
(* Properties of the knowledge gaps                                        *)
(***************************************************************************)
\* the characters of a token up to its first character that is not of a word
LeadingWord(token) ==
  LET stops == {k \in 1..Len(token) : token[k] \notin WordChars}
  IN IF stops = {} THEN token ELSE SubSeq(token, 1, Min(stops) - 1)

GreetingWords ==
  { <<"h","i">>, <<"h","e","l","l","o">>, <<"h","e","y">>, <<"h","i","y","a">>,
    <<"h","o","w","d","y">>, <<"t","h","a","n","k","s">>, <<"o","k">>,
    <<"o","k","a","y">>, <<"y","e","s">>, <<"n","o">>, <<"b","y","e">>,
    <<"g","o","o","d","b","y","e">> }

DayTimes ==
  { <<"m","o","r","n","i","n","g">>, <<"a","f","t","e","r","n","o","o","n">>,
    <<"e","v","e","n","i","n","g">> }

\* the message begins with a greeting or acknowledgment word, or with "good"
\* and a time of day, or with "thank you"
StartsWithGreeting(message) ==
  LET words == SplitWs(ToLowerCase(message))
  IN /\ Len(words) > 0
     /\ \/ LeadingWord(words[1]) \in GreetingWords
        \/ /\ Len(words) > 1
           /\ \/ words[1] = <<"g","o","o","d">> /\ LeadingWord(words[2]) \in DayTimes
              \/ words[1] = <<"t","h","a","n","k">> /\ LeadingWord(words[2]) = <<"y","o","u">>

\* C23: isKnowledgeGap is true exactly when lead capture is not in progress,
\* the message has 15 characters or more, does not start with a greeting or
\* acknowledgment word, holds neither an email nor a phone number, and the
\* search gave no result or only results scoring 0.3 or less.
C23_KnowledgeGapDefinition ==
  res.op = "classify" =>
    (res.gap <=>
       /\ ~res.leadCaptureInProgress
       /\ Len(res.message) >= MIN_MESSAGE_LENGTH
       /\ ~StartsWithGreeting(res.message)
       /\ extractEmail(res.message) = Absent
       /\ extractPhone(res.message) = Absent
       /\ \A k \in 1..Len(res.results) : res.results[k].score <= GapScore)

\* a message of exactly 15 characters whose best result scores exactly 0.3
\* is a gap
C23_Witness ==
  /\ res.op = "classify" /\ res.gap
  /\ Len(res.message) = MIN_MESSAGE_LENGTH
  /\ \E k \in 1..Len(res.results) : res.results[k].score = GapScore

\* the directives with which the bot collects contact info instead of answering
CollectingStates == {"NEED_NAME", "NAME_JUST_PROVIDED", "INVALID_EMAIL", "NEED_EMAIL"}

\* C24: the background work of a turn in which lead capture is in progress
\* (the bot is collecting contact info, its state is not COMPLETE) records
\* no knowledge gap.
C24_NoGapDuringLeadCapture ==
  [][Len(background') > Len(background) =>
       (last'.out.state \in CollectingStates => ~background'[Len(background')].gap)]_vars

\* the first turn of a session asks for the name and is a knowledge gap
C24_GapWhileAskingName ==
  /\ Len(background) > 0 /\ background[Len(background)].gap
  /\ last.out.status = 200 /\ last.out.state = "NEED_NAME" /\ ~last.out.flagBefore

ActiveRows(normalized) ==
  {k \in 1..Len(d1.knowledge_gaps) :
     /\ d1.knowledge_gaps[k].question_normalized = normalized
     /\ d1.knowledge_gaps[k].status = "active"}

\* C25: after k recordings, one after the other, of questions of one
\* normalized text there is exactly one active row of that text; it counts k
\* occurrences, its best score is the highest score recorded, and its sample
\* sessions are the first five distinct sessions at most, in the order in
\* which they first recorded.
C25_RecordingsDeduplicated ==
  \A n \in DOMAIN res.live :
     /\ Cardinality(ActiveRows(n)) = 1
     /\ \A k \in ActiveRows(n) :
          /\ d1.knowledge_gaps[k].occurrence_count = res.live[n].count
          /\ d1.knowledge_gaps[k].best_score = res.live[n].best
          /\ d1.knowledge_gaps[k].sample_sessions =
               SubSeq(res.live[n].sessions, 1,
                      Min({MaxSampleSessions, Len(res.live[n].sessions)}))

\* seven recordings of one question by six sessions, in both spellings (the
\* row keeps the first), the lower score recorded first
C25_Witness ==
  \E n \in DOMAIN res.live :
     /\ res.live[n].count = 7 /\ Len(res.live[n].sessions) = 6
     /\ res.live[n].best = GapScore
     /\ \E k \in ActiveRows(n) :
          /\ d1.knowledge_gaps[k].best_score > 120
          /\ d1.knowledge_gaps[k].question = WhatPricesShouted
          /\ Len(d1.knowledge_gaps[k].sample_sessions) = MaxSampleSessions

\* C26: no two rows of the knowledge-gap table have the same normalized
\* question, whatever recordings and resolutions were made.
C26_NormalizedQuestionUnique ==
  \A j, k \in 1..Len(d1.knowledge_gaps) :
     d1.knowledge_gaps[j].question_normalized = d1.knowledge_gaps[k].question_normalized
       => j = k

HasEmailShape(s) ==
  LET ats == {k \in 1..Len(s) : s[k] = "@"}
  IN /\ \A k \in 1..Len(s) : s[k] \notin Space
     /\ Cardinality(ats) = 1
     /\ \A a \in ats :
          /\ a > 1
          /\ \E d \in (a + 2)..(Len(s) - 1) : s[d] = "."

\* everything after the last '@'
WholeDomain(s) ==
  LET ats == {k \in 1..Len(s) : s[k] = "@"}
  IN SubSeq(s, Max(ats) + 1, Len(s))

\* C28: validateEmail answers invalid with the format reason when the string
\* has not the local@domain.tld shape or is longer than 254 characters,
\* otherwise invalid with the disposable-domain reason when its whole domain,
\* lower-cased, is in the blocklist, and otherwise valid.
C28_ValidateEmailOutcomes ==
  res.op = "validateEmail" =>
    LET email == EmailOf(res.input)
        wellFormed == HasEmailShape(email) /\ Len(email) <= 254
    IN IF ~wellFormed
         THEN res.result = [valid |-> FALSE, reason |-> "Invalid email format"]
       ELSE IF ToLowerCase(WholeDomain(email)) \in DISPOSABLE_DOMAINS
         THEN res.result =
                [valid |-> FALSE, reason |-> "Please use a non-disposable email address"]
       ELSE res.result.valid

\* a well-formed address of a blocklisted domain written in capitals is refused
C28_Witness ==
  /\ res.op = "validateEmail"
  /\ HasEmailShape(EmailOf(res.input))
  /\ WholeDomain(EmailOf(res.input)) \notin DISPOSABLE_DOMAINS
  /\ res.result.reason = "Please use a non-disposable email address"

(***************************************************************************)
(* Properties of the lead-save path                                        *)
(***************************************************************************)

\* C29: on the lead-save path the validate-email function is called only
\* for an email the local validateEmail accepts, the insert is attempted
\* only after both accepted the email, and when the validate-email function
\* is unreachable or answers an error status the local result stands in for
\* it, so that the insert of the locally valid email is attempted.
C29_LocalThenExternalThenInsert ==
  (res.op = "processLeadCaptureWithInfo" /\ config.leadsEnabled /\ res.leadInfo.email # Absent) =>
    LET local == validateEmail(res.leadInfo.email)
        external == \E n \in 1..Len(res.calls) : res.calls[n] = "validate-email"
        insert == \E n \in 1..Len(res.calls) : res.calls[n] = "capture-lead"
    IN /\ external => local.valid /\ res.calls[1] = "validate-email"
       /\ ~local.valid =>
            /\ res.calls = <<>>
            /\ res.result = [captured |-> FALSE, validationMessage |-> local.reason]
       /\ insert =>
            /\ local.valid
            /\ res.validator # "invalid"
            /\ res.calls = <<"validate-email", "capture-lead">>
       /\ insert = (res.insert # Null)
       /\ (local.valid /\ res.validator \in {"down", "error"}) =>
            insert /\ res.insert.email = res.leadInfo.email

\* the validate-email function answers an error status and the lead is stored
C29_Witness ==
  /\ res.op = "processLeadCaptureWithInfo"
  /\ res.validator = "error"
  /\ res.calls = <<"validate-email", "capture-lead">>
  /\ res.result.captured

(***************************************************************************)
(* Properties of the order of the operations of a chat turn                *)
(***************************************************************************)

\* C31: in every chat turn answered with status 200 the calls are, in this
\* order, the memory read, the embedding, the vector search, one LLM call,
\* the read and the write of the user message, the read and the write of the
\* assistant reply, and then the lead-save path (validate-email, then
\* capture-lead) when it runs; the analytics tables are not written by the
\* turn itself: the chat log and the knowledge-gap classification are left
\* to the background work that the turn hands over at its end.
C31_OperationsInOrder ==
  [][(hist'.turns = hist.turns + 1 /\ last'.out.status = 200) =>
       LET calls == last'.out.calls
           At(name) == {n \in 1..Len(calls) : calls[n] = name}
       IN /\ Len(calls) >= 8
          /\ SubSeq(calls, 1, 4) = <<"kv.get", "embed", "search", "llm">>
          /\ Cardinality(At("llm")) = 1
          /\ Cardinality(At("kv.put")) = 2
          /\ \A n \in At("kv.put") \cup At("validate-email") \cup At("capture-lead") :
               \A m \in At("llm") : m < n
          /\ \A n \in At("validate-email") \cup At("capture-lead") :
               \A m \in At("kv.put") : m < n
          /\ \A n \in At("capture-lead") : \A m \in At("validate-email") : m < n
          /\ d1' = d1
          /\ Len(background') = Len(background) + 1
          /\ background'[Len(background')].pc = "logChat"]_vars

\* a turn that stored a lead, and whose knowledge gap was recorded afterwards
C31_Witness ==
  /\ last.out.status = 200
  /\ last.out.calls = <<"kv.get", "embed", "search", "llm", "kv.get", "kv.put",
                        "kv.get", "kv.put", "validate-email", "capture-lead">>
  /\ Len(d1.chat_logs) > 0

(***************************************************************************)
(* Properties of the vector store under deletes                            *)
(***************************************************************************)

\* C32: after every upsert and delete stats().count is the number of ids
\* upserted and not deleted since; a delete leaves neither the record nor the
\* index entry of its id, leaves the record and the index entry of every
\* other id as they were, and leaves the index and every record as they
\* were when its id was not stored.
C32_CountAndDelete ==
  [][(res'.ops = res.ops + 1) =>
       /\ stats(vkv').count = Cardinality(DOMAIN res'.live)
       /\ res'.op = "delete" =>
            /\ VGet(vkv', VECTORS_PREFIX \o res'.id) = Null
            /\ ~IndexIncludes(getIndex(vkv'), res'.id)
            /\ getIndex(vkv') = SelectSeq(getIndex(vkv), LAMBDA i : i # res'.id)
            /\ \A id \in VectorIds \ {res'.id} :
                 VGet(vkv', VECTORS_PREFIX \o id) = VGet(vkv, VECTORS_PREFIX \o id)
            /\ res'.id \notin DOMAIN res.live =>
                 /\ getIndex(vkv') = getIndex(vkv)
                 /\ \A id \in VectorIds :
                      VGet(vkv', VECTORS_PREFIX \o id) = VGet(vkv, VECTORS_PREFIX \o id)]_vars

\* two ids upserted, one of them deleted: one record and one index entry left
C32_Witness ==
  /\ res.op = "delete"
  /\ res.ops = MaxStoreOps
  /\ Cardinality(DOMAIN res.live) = 1
  /\ getIndex(vkv) = <<CHOOSE id \in DOMAIN res.live : TRUE>>
  /\ Cardinality({id \in VectorIds : VGet(vkv, VECTORS_PREFIX \o id) # Null}) = 1

(***************************************************************************)
(* Properties of concurrent requests                                       *)
(***************************************************************************)

\* C33: once the concurrent upserts of distinct ids have all completed, the
\* index lists every one of their ids.
C33_NoIndexUpdateLost ==
  (\A p \in 1..Len(ConcurrentIds) : res.procs[p].pc = "done") =>
    \A p \in 1..Len(ConcurrentIds) : \A n \in 1..Len(ConcurrentIds[p]) :
      IndexIncludes(getIndex(vkv), ConcurrentIds[p][n])

\* C34: when the recordings of two sessions asking the same new question
\* have both completed, whatever their interleaving, the table has one active
\* row of that question, with occurrence_count 2 and both session ids.
C34_ConcurrentRecordingsAsSequential ==
  (Len(background) = Cardinality(ConcurrentSessions)
     /\ \A i \in 1..Len(background) : background[i].pc = "done") =>
    /\ Len(d1.knowledge_gaps) = 1
    /\ d1.knowledge_gaps[1].status = "active"
    /\ d1.knowledge_gaps[1].occurrence_count = 2
    /\ {d1.knowledge_gaps[1].sample_sessions[k] :
          k \in 1..Len(d1.knowledge_gaps[1].sample_sessions)} = ConcurrentSessions

(***************************************************************************)
(* Properties of re-ingestion                                              *)
(***************************************************************************)

\* C35: an ingestion answered with success writes the records of the chunk
\* ids it reports, one per chunk of the new chunking, and leaves every other
\* record as it was, the records of the same source id with a higher chunk
\* index included; and no ingestion lowers stats().count.
C35_ReingestionOverwritesOnlyNewChunks ==
  [][res'.op \in {"ingest", "bulk"} =>
       /\ stats(vkv').count >= stats(vkv).count
       /\ (res'.op = "ingest" /\ res'.out.status = 200) =>
            LET written == {VECTORS_PREFIX \o res'.out.chunks[k] :
                              k \in 1..Len(res'.out.chunks)}
            IN /\ Cardinality(written) = res'.out.count
               /\ \A k \in 1..Len(res'.out.chunks) :
                    LET key == VECTORS_PREFIX \o res'.out.chunks[k]
                    IN /\ key \in DOMAIN vkv'
                       /\ ParseVector(vkv'[key]).id = res'.out.chunks[k]
                       /\ IndexIncludes(getIndex(vkv'), res'.out.chunks[k])
               /\ \A key \in VectorKeys(vkv) \ written :
                    key \in DOMAIN vkv' /\ vkv'[key] = vkv[key]
               /\ VectorKeys(vkv') = VectorKeys(vkv) \cup written]_vars

\* a page of two chunks ingested again with one chunk: the second chunk of
\* the earlier ingestion is still stored
C35_Witness ==
  /\ res.op = "ingest" /\ res.out.status = 200
  /\ res.out.chunks = <<generateChunkId(res.out.sourceId, 0)>>
  /\ VECTORS_PREFIX \o generateChunkId(res.out.sourceId, 1) \in DOMAIN vkv
  /\ stats(vkv).count = 2

(***************************************************************************)
(* Properties of an append whose read fails                                *)
(***************************************************************************)

\* C36 (as stated): an append that writes to a live record, whether or not
\* the read inside it succeeded, leaves a record holding the messages stored
\* before it followed by the new message (within the window of ten), and
\* every lead field that was stored before it still has a value.
C36_FailedReadKeepsRecord ==
  [][(hist'.appends = hist.appends + 1 /\ kv' # kv /\ Stored # Null) =>
       /\ Stored' # Null
       /\ Stored'.messages =
            LastN(Append(Stored.messages, MessageNo(hist'.appends)), MAX_MESSAGES)
       /\ \A f \in {"name", "email", "phone"} :
            Stored.leadInfo[f] # Absent => Stored'.leadInfo[f] # Absent]_vars

(***************************************************************************)
(* Properties of the two validations of the email in one turn              *)
(***************************************************************************)

\* the lead-save step of the last turn refused the email as invalid: it
\* returned a result without handing a lead to saveLead
RejectedAsInvalid == last.out.leadResult # Null /\ last.out.insert = Null

\* C37 (as stated): a turn whose state is COMPLETE does not have its email
\* rejected as invalid by the lead-save step of the same turn, and a turn
\* whose state is INVALID_EMAIL attempts no insert.
C37_ValidityDecisionsAgree ==
  /\ last.out.state = "COMPLETE" => ~RejectedAsInvalid
  /\ last.out.state = "INVALID_EMAIL" => last.out.insert = Null

(***************************************************************************)
(* Properties of the streaming route                                       *)
(***************************************************************************)

\* C38: a POST /chat/stream, whatever its body and the answers of its
\* collaborators, calls nothing but the embedding, the search and the
\* streaming LLM, and leaves the conversation records, the lead table, the
\* analytics tables and the pending background work as they were: no memory
\* read or write, no lead insert, no knowledge gap.
C38_StreamLeavesStoresUnchanged ==
  [][(res'.op = "stream" /\ res'.ops = res.ops + 1) =>
       /\ kv' = kv
       /\ leads' = leads
       /\ d1' = d1
       /\ background' = background
       /\ last' = last
       /\ \A k \in 1..Len(res'.out.calls) :
            res'.out.calls[k] \in {"embed", "search", "llm.chatStream"}]_vars

\* a streaming request answered with the stream although every search
\* result was at or under 0.3, made when the session has a live record and
\* the gap table a row: the request that would have been a knowledge gap on
\* the chat route
C38_Witness ==
  /\ res.op = "stream" /\ res.out.status = 200
  /\ res.out.notes = "none"
  /\ Alive
  /\ Len(d1.knowledge_gaps) > 0

=============================================================================
